---- MODULE Spec2Model ----
(***************************************************************************)
(* Model of matdmb/organize-media: the Exif date/time extractor            *)
(* (pkg/utils/exifutils.go) and the file pipeline that consumes it         *)
(* (pkg/utils/fileutils.go).  Buffers are sequences of bytes (0..255),     *)
(* reader positions are 0-based as in bytes.Reader: the byte at position p *)
(* of buffer b is b[p+1].                                                  *)
(***************************************************************************)
EXTENDS Integers, Sequences, FiniteSets, TLC

\* ------------------------------------------------------------------------
\* State
\* ------------------------------------------------------------------------
VARIABLES
    pc,          \* "idle", "loop" (inside GetImageDateTime's loop), "done"
    input,       \* how the buffer of the current call was built
    fileExt,     \* the fileExt argument of the current call
    buf,         \* the buffer argument of the current call
    ext,         \* strings.ToLower(fileExt)
    strategies,  \* the strategy list of the current call
    idx,         \* index of the next strategy to try (1-based)
    pos,         \* position of the reader
    log,         \* the strategies invoked by the current call, with outcome
    result,      \* what the call returns
    tracked,     \* an input whose results are compared across calls
    trackedRes,  \* the result of the first completed call on the tracked input
    between,     \* a call on another input has completed since trackedRes was set
    iter,        \* the locals of a loop run one iteration at a time
    walk,        \* ProcessMediaFiles: "walking", "returned"
    params,      \* models.Params of the run
    walkPos,     \* index in SourcePaths of the last path the walk has visited
    destFiles,   \* the files under Destination
    destDirs,    \* the directories under Destination
    srcGone,     \* the source paths removed by the run
    summary,     \* the ProcessingSummary being built
    walkErr,     \* the error ProcessMediaFiles returns
    last,        \* the file the walk function was last called on, and what happened
    eligible     \* the regular files with an allowed extension the walk has met

callVars == <<pc, input, fileExt, buf, ext, strategies, idx, pos, log, result, tracked, trackedRes, between, iter>>

pipeVars == <<walk, params, walkPos, destFiles, destDirs, srcGone, summary, walkErr, last, eligible>>

vars == <<callVars, pipeVars>>

\* ------------------------------------------------------------------------
\* Program constants (exifutils.go)
\* ------------------------------------------------------------------------
ExifIdentifier == <<69, 120, 105, 102, 0, 0>>
TagDateTime == 306
TagDateTimeOriginal == 36867
TagDateTimeDigitized == 36868
\* "XX" is taken for the big-endian marker
BigEndianMarkerXX == <<88, 88>>

BigEndianMarker == <<77, 77>>
LittleEndianMarker == <<73, 73>>
TiffMagic == 42
TypeASCII == 2
MinYear == 1990
MaxYear == 2100
ChunkSize == 4096
ScanLimit == 1048576

\* error kinds returned by the extractor
ErrNone == "nil"
ErrEOF == "EOF"
ErrNegativeSeek == "negative position"
ErrNotJPEG == "not a valid JPEG file"
ErrNoExifInJpeg == "no EXIF data found in JPEG structure"
ErrInvalidByteOrder == "invalid TIFF byte order marker"
ErrInvalidTiffMarker == "invalid TIFF marker"
ErrNoOffsets == "couldn't find EXIF data at known offsets"
ErrNoDateTime == "no date/time information found"

\* ------------------------------------------------------------------------
\* time.Time values and time.Parse with ExifTimeLayout
\* ------------------------------------------------------------------------
MkTime(y, mo, d, h, mi, s) ==
    [year |-> y, month |-> mo, day |-> d, hour |-> h, minute |-> mi, second |-> s]

\* time.Time{} : January 1, year 1, 00:00:00
ZeroTime == MkTime(1, 1, 1, 0, 0, 0)

Success(t, p) == [ok |-> TRUE, t |-> t, err |-> ErrNone, pos |-> p]
Failure(e, p) == [ok |-> FALSE, t |-> ZeroTime, err |-> e, pos |-> p]

IsDigit(c) == c >= 48 /\ c <= 57

Num2(s, i) == (s[i] - 48) * 10 + (s[i + 1] - 48)

Num4(s, i) == (s[i] - 48) * 1000 + (s[i + 1] - 48) * 100 + (s[i + 2] - 48) * 10 + (s[i + 3] - 48)

IsLeap(y) == y % 4 = 0 /\ (y % 100 # 0 \/ y % 400 = 0)

DaysIn(m, y) ==
    IF m = 2 THEN (IF IsLeap(y) THEN 29 ELSE 28)
    ELSE IF m \in {4, 6, 9, 11} THEN 30 ELSE 31

\* the punctuation of the layout "2006:01:02 15:04:05" (1-based indices)
LayoutPunct(s) ==
    /\ s[5] = 58 /\ s[8] = 58 /\ s[11] = 32 /\ s[14] = 58 /\ s[17] = 58

LayoutDigits(s) ==
    \A i \in {1, 2, 3, 4, 6, 7, 9, 10, 12, 13, 15, 16, 18, 19} : IsDigit(s[i])

\* time.Parse(ExifTimeLayout, s) for a 19-byte string s
ParseExifTime(s) ==
    IF Len(s) # 19 \/ ~LayoutPunct(s) \/ ~LayoutDigits(s)
    THEN [ok |-> FALSE, t |-> ZeroTime]
    ELSE LET y == Num4(s, 1)
             mo == Num2(s, 6)
             d == Num2(s, 9)
             h == Num2(s, 12)
             mi == Num2(s, 15)
             sec == Num2(s, 18)
         IN IF /\ mo >= 1 /\ mo <= 12
               /\ h < 24 /\ mi < 60 /\ sec < 60
               /\ d >= 1 /\ d <= DaysIn(mo, y)
            THEN [ok |-> TRUE, t |-> MkTime(y, mo, d, h, mi, sec)]
            ELSE [ok |-> FALSE, t |-> ZeroTime]

\* ------------------------------------------------------------------------
\* bytes.Reader over a buffer b with position p
\* ------------------------------------------------------------------------
Slice(b, p, n) == [i \in 1..n |-> b[p + i]]

\* io.ReadFull(reader, buf) with len(buf) = n
\* (q is the position p, worked out once)
ReadFull(b, p, n) ==
    CHOOSE r \in {IF q + n <= Len(b)
                  THEN [ok |-> TRUE, data |-> Slice(b, q, n), pos |-> q + n]
                  ELSE [ok |-> FALSE, data |-> <<>>, pos |-> IF q > Len(b) THEN q ELSE Len(b)] :
                  q \in {p}} : TRUE

\* reader.Seek(abs, io.SeekStart)
SeekStart(p, abs) ==
    IF abs < 0 THEN [ok |-> FALSE, pos |-> p] ELSE [ok |-> TRUE, pos |-> abs]

\* the byte order is ignored
U16LittleOnly(big, s, i) == s[i + 1] * 256 + s[i]

\* binary.ByteOrder.Uint16 / Uint32 of the bytes s[i..]
U16(big, s, i) == IF big THEN s[i] * 256 + s[i + 1] ELSE s[i + 1] * 256 + s[i]

U32(big, s, i) ==
    IF big THEN s[i] * 16777216 + s[i + 1] * 65536 + s[i + 2] * 256 + s[i + 3]
    ELSE s[i + 3] * 16777216 + s[i + 2] * 65536 + s[i + 1] * 256 + s[i]

\* ------------------------------------------------------------------------
\* ParseTIFFHeader (seekable reader)
\* ------------------------------------------------------------------------
\* only DateTimeOriginal is a date tag
IsDateTagOriginalOnly(tag) == tag = TagDateTimeOriginal

IsDateTag(tag) ==
    tag = TagDateTimeOriginal \/ tag = TagDateTime \/ tag = TagDateTimeDigitized

\* position of the value of the date tag of entry i (0-based), computed
\* after the entry has been read (currentPos is just after the entry)
ValuePosition(currentPos, i, valueOffset) ==
    LET tiffHeaderStart == currentPos - (12 * (i + 1) + 2)
    IN tiffHeaderStart - 8 + valueOffset

\* no count is too short
ValueTooShortNever(count) == FALSE

\* "if count <= 4 { continue }": too short for a valid date
ValueTooShort(count) == count <= 4

RECURSIVE IFDEntries(_, _, _, _, _)
IFDEntries(b, big, i, entryCount, p) ==
    IF i >= entryCount THEN Failure(ErrNoDateTime, p)
    ELSE LET e == ReadFull(b, p, 12)
         IN IF ~e.ok THEN Failure(ErrEOF, e.pos)
            ELSE LET tag == U16(big, e.data, 1)
                     dataType == U16(big, e.data, 3)
                     count == U32(big, e.data, 5)
                     valueOffset == U32(big, e.data, 9)
                     currentPos == e.pos
                 IN IF IsDateTag(tag) /\ dataType = TypeASCII
                    THEN IF ValueTooShort(count)
                         THEN IFDEntries(b, big, i + 1, entryCount, currentPos)
                         ELSE LET sk == SeekStart(currentPos, ValuePosition(currentPos, i, valueOffset))
                              IN IF ~sk.ok THEN Failure(ErrNegativeSeek, currentPos)
                                 ELSE LET dr == ReadFull(b, sk.pos, 20)
                                      IN IF ~dr.ok THEN Failure(ErrEOF, dr.pos)
                                         ELSE LET pr == ParseExifTime(SubSeq(dr.data, 1, 19))
                                              IN IF pr.ok THEN Success(pr.t, currentPos)
                                                 ELSE IFDEntries(b, big, i + 1, entryCount, currentPos)
                    ELSE IFDEntries(b, big, i + 1, entryCount, currentPos)

ParseTIFFHeader(b, p) ==
    LET om == ReadFull(b, p, 2)
    IN IF ~om.ok THEN Failure(ErrEOF, om.pos)
       ELSE IF om.data # BigEndianMarker /\ om.data # LittleEndianMarker
       THEN Failure(ErrInvalidByteOrder, om.pos)
       ELSE LET big == (om.data = BigEndianMarker)
                mk == ReadFull(b, om.pos, 2)
            IN IF ~mk.ok THEN Failure(ErrEOF, mk.pos)
               ELSE IF U16(big, mk.data, 1) # TiffMagic
               THEN Failure(ErrInvalidTiffMarker, mk.pos)
               ELSE LET ob == ReadFull(b, mk.pos, 4)
                    IN IF ~ob.ok THEN Failure(ErrEOF, ob.pos)
                       ELSE LET ifdOffset == U32(big, ob.data, 1)
                                tiffHeaderStart == ob.pos - 8
                                sk == SeekStart(ob.pos, tiffHeaderStart + ifdOffset)
                            IN IF ~sk.ok THEN Failure(ErrNegativeSeek, ob.pos)
                               ELSE LET ec == ReadFull(b, sk.pos, 2)
                                    IN IF ~ec.ok THEN Failure(ErrEOF, ec.pos)
                                       ELSE IFDEntries(b, big, 0, U16(big, ec.data, 1), ec.pos)

\* ------------------------------------------------------------------------
\* ExtractExifFromJPEG
\* ------------------------------------------------------------------------
SOI == <<255, 216>>
MarkerPrefix == 255
MarkerAPP1 == 225
\* the marker after start-of-scan in the segment table is taken in its place
MarkerSOSOther == MarkerAPP1 - 6

MarkerSOS == 218

\* the length is read low byte first
SegmentLengthLittle(lengthBuf) == lengthBuf[2] * 256 + lengthBuf[1]

\* int(lengthBuf[0])<<8 | int(lengthBuf[1])
SegmentLength(lengthBuf) == lengthBuf[1] * 256 + lengthBuf[2]

\* the marker loop, entered with the reader at position p
RECURSIVE JPEGMarkerLoop(_, _)
JPEGMarkerLoop(b, p) ==
    LET m == ReadFull(b, p, 2)
    IN IF ~m.ok THEN Failure(ErrNoExifInJpeg, m.pos)
       ELSE IF m.data[1] # MarkerPrefix THEN JPEGMarkerLoop(b, m.pos)
       ELSE IF m.data[2] = MarkerAPP1
       THEN LET lb == ReadFull(b, m.pos, 2)
            IN IF ~lb.ok THEN Failure(ErrNoExifInJpeg, lb.pos)
               ELSE LET length == SegmentLength(lb.data)
                        eh == ReadFull(b, lb.pos, 6)
                    IN IF ~eh.ok THEN Failure(ErrNoExifInJpeg, eh.pos)
                       ELSE LET isExif == (eh.data = ExifIdentifier)
                                r == IF isExif THEN ParseTIFFHeader(b, eh.pos)
                                     ELSE Failure(ErrNoExifInJpeg, eh.pos)
                                skipLength == length - 2 - 6
                            IN IF isExif /\ r.ok THEN r
                               ELSE IF skipLength > 0
                               THEN JPEGMarkerLoop(b, r.pos + skipLength)
                               ELSE JPEGMarkerLoop(b, r.pos)
       ELSE IF m.data[2] = MarkerSOS THEN Failure(ErrNoExifInJpeg, m.pos)
       ELSE LET lb == ReadFull(b, m.pos, 2)
            IN IF ~lb.ok THEN Failure(ErrNoExifInJpeg, lb.pos)
               ELSE LET length == SegmentLength(lb.data)
                    IN IF length < 2 THEN Failure(ErrNoExifInJpeg, lb.pos)
                       ELSE JPEGMarkerLoop(b, lb.pos + (length - 2))

\* the start-of-image marker is read but not compared
ExtractExifFromJPEGNoSOI(b, p, e) ==
    LET s == ReadFull(b, p, 2)
    IN IF ~s.ok THEN Failure(ErrEOF, s.pos) ELSE JPEGMarkerLoop(b, s.pos)

ExtractExifFromJPEG(b, p, e) ==
    LET s == ReadFull(b, p, 2)
    IN IF ~s.ok THEN Failure(ErrEOF, s.pos)
       ELSE IF s.data # SOI THEN Failure(ErrNotJPEG, s.pos)
       ELSE JPEGMarkerLoop(b, s.pos)

\* ------------------------------------------------------------------------
\* ExtractExifFromTIFF
\* ------------------------------------------------------------------------
ExtractExifFromTIFF(b, p, e) == ParseTIFFHeader(b, p)

\* ------------------------------------------------------------------------
\* ExtractExifWithOffsets
\* ------------------------------------------------------------------------
\* file extensions are strings of bytes; strings.ToLower maps A-Z to a-z
ToLower(s) == [i \in 1..Len(s) |-> IF s[i] >= 65 /\ s[i] <= 90 THEN s[i] + 32 ELSE s[i]]

ExtJPG == <<46, 106, 112, 103>>
ExtJPEG == <<46, 106, 112, 101, 103>>
ExtCR2 == <<46, 99, 114, 50>>
ExtARW == <<46, 97, 114, 119>>
ExtNEF == <<46, 110, 101, 102>>
ExtDNG == <<46, 100, 110, 103>>
ExtMP4 == <<46, 109, 112, 52>>
ExtMOV == <<46, 109, 111, 118>>
ExtQT == <<46, 113, 116>>
ExtUpperJPG == <<46, 74, 80, 71>>

\* every extension gets the default candidates
OffsetsForDefaultOnly(e) == <<0, 4, 8>>

OffsetsFor(e) ==
    IF e = ExtCR2 THEN <<0, 8, 16>>
    ELSE IF e = ExtARW THEN <<0, 4, 8, 12>>
    ELSE IF e = ExtNEF THEN <<0, 4, 8>>
    ELSE <<0, 4, 8>>

RECURSIVE TryOffsets(_, _, _, _)
TryOffsets(b, offsets, k, p) ==
    IF k > Len(offsets) THEN Failure(ErrNoOffsets, p)
    ELSE LET sk == SeekStart(p, offsets[k])
         IN IF ~sk.ok THEN TryOffsets(b, offsets, k + 1, p)
            ELSE LET r == ParseTIFFHeader(b, sk.pos)
                 IN IF r.ok THEN r ELSE TryOffsets(b, offsets, k + 1, r.pos)

ExtractExifWithOffsets(b, p, e) == TryOffsets(b, OffsetsFor(e), 1, p)

\* ------------------------------------------------------------------------
\* ScanForDateTimeString
\* ------------------------------------------------------------------------
Min(S) == CHOOSE x \in S : \A y \in S : x <= y

\* reader.Read(buffer) with len(buffer) = ChunkSize: number of bytes read
ReadChunk(b, p) == IF p >= Len(b) THEN 0 ELSE Min({ChunkSize, Len(b) - p})

\* the window indices i examined in a chunk of n bytes: 0 <= i < n - 19
WindowIndices(n) == 0..(n - 20)

\* the year of the parsed window is not looked at
WindowAcceptedAnyYear(b, p, i) ==
    /\ b[p + i + 5] = 58 /\ b[p + i + 8] = 58 /\ b[p + i + 11] = 32
    /\ b[p + i + 14] = 58 /\ b[p + i + 17] = 58
    /\ ParseExifTime(Slice(b, p + i, 19)).ok

\* the window of the chunk starting at position p that begins at index i
\* of the chunk is accepted as a date
WindowAccepted(b, p, i) ==
    /\ b[p + i + 5] = 58 /\ b[p + i + 8] = 58 /\ b[p + i + 11] = 32
    /\ b[p + i + 14] = 58 /\ b[p + i + 17] = 58
    /\ LET pr == ParseExifTime(Slice(b, p + i, 19))
       IN pr.ok /\ pr.t.year >= MinYear /\ pr.t.year <= MaxYear

Continue(p) == [kind |-> "continue", pos |-> p, t |-> ZeroTime, err |-> ErrNone]
Break(p, e) == [kind |-> "break", pos |-> p, t |-> ZeroTime, err |-> e]
ReturnTime(t, p) == [kind |-> "return", pos |-> p, t |-> t, err |-> ErrNone]

\* one iteration of the chunk loop of ScanForDateTimeString: the reader at
\* p, offset bytes scanned so far
ScanIteration(b, p, offset) ==
    LET n == ReadChunk(b, p)
    IN IF n = 0 THEN Break(p, ErrNoDateTime)
       ELSE LET hits == {i \in WindowIndices(n) : WindowAccepted(b, p, i)}
            IN IF hits # {} THEN ReturnTime(ParseExifTime(Slice(b, p + Min(hits), 19)).t, p + n)
               ELSE IF offset + n > ScanLimit THEN Break(p + n, ErrNoDateTime)
               ELSE Continue(p + n)

\* the chunk loop: iterations follow one another until one does not continue
RECURSIVE ScanChunks(_, _, _)
ScanChunks(b, p, offset) ==
    LET it == ScanIteration(b, p, offset)
    IN IF it.kind = "continue" THEN ScanChunks(b, it.pos, offset + (it.pos - p))
       ELSE [ok |-> it.kind = "return", t |-> it.t, err |-> it.err, pos |-> it.pos]

\* the reader is not brought back to the start of the buffer
ScanFromCurrentPosition(b, p, e) == ScanChunks(b, p, 0)

ScanForDateTimeString(b, p, e) ==
    LET sk == SeekStart(p, 0)
    IN IF ~sk.ok THEN Failure(ErrNegativeSeek, p) ELSE ScanChunks(b, sk.pos, 0)

\* ------------------------------------------------------------------------
\* GetImageDateTime: the strategy list
\* ------------------------------------------------------------------------
AllStrategies == <<"JPEG", "TIFF", "Offsets", "Scan">>

Tail1(s) == SubSeq(s, 2, Len(s))

\* the list kept in a variable shared by the calls, re-sliced in place
StrategiesForShared(e) ==
    LET base == IF strategies = <<>> THEN AllStrategies ELSE strategies
    IN IF e # ExtJPG /\ e # ExtJPEG THEN Tail1(base) ELSE base

\* the JPEG locator is kept for every extension
StrategiesForAll(e) == AllStrategies

\* strategies after "if ext != .jpg && ext != .jpeg { strategies = strategies[1:] }"
StrategiesFor(e) ==
    IF e # ExtJPG /\ e # ExtJPEG THEN Tail1(AllStrategies) ELSE AllStrategies

\* strategy(reader, ext) with the reader at position p
RunStrategy(name, b, p, e) ==
    CASE name = "JPEG" -> ExtractExifFromJPEG(b, p, e)
      [] name = "TIFF" -> ExtractExifFromTIFF(b, p, e)
      [] name = "Offsets" -> ExtractExifWithOffsets(b, p, e)
      [] name = "Scan" -> ScanForDateTimeString(b, p, e)

\* the loop of GetImageDateTime from strategy k of the list sl on, as one
\* function of the buffer
RECURSIVE StrategyLoop(_, _, _, _, _)
StrategyLoop(b, e, sl, k, p) ==
    IF k > Len(sl) THEN Failure(ErrNoDateTime, p)
    ELSE LET sk == SeekStart(p, 0)
         IN IF ~sk.ok THEN Failure(ErrNegativeSeek, p)
            ELSE LET r == RunStrategy(sl[k], b, sk.pos, e)
                 IN IF r.ok THEN r ELSE StrategyLoop(b, e, sl, k + 1, r.pos)

GetImageDateTime(buffer, fe) ==
    LET e == ToLower(fe)
        r == StrategyLoop(buffer, e, StrategiesFor(e), 1, 0)
    IN [ok |-> r.ok, t |-> r.t, err |-> r.err]

\* ------------------------------------------------------------------------
\* Bounds of the model
\* ------------------------------------------------------------------------
\* first-IFD offsets 8 .. 8 + MaxPad
MaxPad == 2
\* filler bytes between the IFD and the date strings: 0 .. MaxGap
MaxGap == 1
\* a TIFF structure is preceded by 0, 4, .. 4 * MaxPrefixWords other bytes
MaxPrefixWords == 4

\* ------------------------------------------------------------------------
\* Input buffers: encoders of the structures the extractor decodes
\* ------------------------------------------------------------------------
Bytes16(big, v) == IF big THEN <<v \div 256, v % 256>> ELSE <<v % 256, v \div 256>>

Bytes32(big, v) ==
    IF big THEN <<v \div 16777216, (v \div 65536) % 256, (v \div 256) % 256, v % 256>>
    ELSE <<v % 256, (v \div 256) % 256, (v \div 65536) % 256, v \div 16777216>>

Dig(n) == 48 + n

\* the Exif string "YYYY:MM:DD HH:MM:SS" of a date/time, without terminator
DateString(t) ==
    <<Dig(t.year \div 1000), Dig((t.year \div 100) % 10), Dig((t.year \div 10) % 10), Dig(t.year % 10), 58,
      Dig(t.month \div 10), Dig(t.month % 10), 58,
      Dig(t.day \div 10), Dig(t.day % 10), 32,
      Dig(t.hour \div 10), Dig(t.hour % 10), 58,
      Dig(t.minute \div 10), Dig(t.minute % 10), 58,
      Dig(t.second \div 10), Dig(t.second % 10)>>

Filler(n, c) == [i \in 1..n |-> c]

IFDEntry(big, tag, dataType, count, valueOffset) ==
    Bytes16(big, tag) \o Bytes16(big, dataType) \o Bytes32(big, count) \o Bytes32(big, valueOffset)

\* a TIFF structure: header, pad filler bytes, an IFD with one ASCII entry
\* (tag, count 20), the next-IFD offset, gap filler bytes, the date string
\* and its terminator; the value offset is relative to the header start
TiffBytes(big, pad, gap, tag, t) ==
    LET ifdOffset == 8 + pad
        valueOffset == ifdOffset + 2 + 12 + 4 + gap
    IN (IF big THEN BigEndianMarker ELSE LittleEndianMarker)
       \o Bytes16(big, TiffMagic) \o Bytes32(big, ifdOffset)
       \o Filler(pad, 0)
       \o Bytes16(big, 1)
       \o IFDEntry(big, tag, TypeASCII, 20, valueOffset)
       \o Bytes32(big, 0)
       \o Filler(gap, 0)
       \o DateString(t) \o <<0>>

\* SOI, one APP1 segment with the Exif identifier and the TIFF structure, EOI
JpegBytes(tiff) ==
    SOI \o <<MarkerPrefix, MarkerAPP1>> \o Bytes16(TRUE, Len(tiff) + 8)
        \o ExifIdentifier \o tiff \o <<255, 217>>

D2023 == MkTime(2023, 6, 15, 14, 30, 45)
D2020 == MkTime(2020, 5, 15, 14, 30, 25)
D1800 == MkTime(1800, 1, 1, 0, 0, 0)
D3000 == MkTime(3000, 1, 1, 0, 0, 0)
D1990 == MkTime(1990, 1, 1, 0, 0, 0)
D2100 == MkTime(2100, 12, 31, 23, 59, 59)
DBadMonth == MkTime(2023, 13, 1, 0, 0, 0)
DBadHour == MkTime(2023, 6, 15, 25, 0, 0)

TiffDates == {D2023, D1800, D2100}
TextDates == {D2020, D1800, D3000, D1990, D2100, DBadMonth}

\* FF D8 FF E1 <len> "Exif\0\0" MM 00 2A 00000008, one entry
\* (0x9003, ASCII, count 20, offset 26), "2023:06:15 14:30:45\0"
ScenarioJpeg ==
    <<255, 216, 255, 225, 0, 54, 69, 120, 105, 102, 0, 0,
      77, 77, 0, 42, 0, 0, 0, 8,
      0, 1, 144, 3, 0, 2, 0, 0, 0, 20, 0, 0, 0, 26, 0, 0, 0, 0,
      50, 48, 50, 51, 58, 48, 54, 58, 49, 53, 32, 49, 52, 58, 51, 48, 58, 52, 53, 0>>

\* literal buffers of the test suite and of the specification
Literals ==
    << <<>>,
       <<255>>,
       <<0, 0, 255, 216, 255, 225>>,
       <<255, 216, 255, 224, 0, 16, 74, 70, 73, 70>>,
       <<255, 216, 255, 225, 0, 16, 65, 66, 67, 68, 0, 0, 1, 2, 3, 4, 5, 6, 7, 8>>,
       <<255, 216, 255, 218, 0, 8, 1, 2, 3, 4, 5, 6>>,
       <<255, 216, 255, 224, 0, 1>>,
       <<255, 216, 255, 225, 0, 32, 69, 120, 105, 102, 0, 0>>,
       <<73, 73>>,
       <<77, 77, 0, 43, 0, 0, 0, 8>>,
       ScenarioJpeg >>

Junk == <<106, 117, 110, 107>>

\* an input is described by the way it was built
MkInput(kind, big, pad, gap, prefix, date) ==
    [kind |-> kind, big |-> big, pad |-> pad, gap |-> gap, prefix |-> prefix, date |-> date]

JpegInputs ==
    {MkInput("jpeg", big, pad, gap, prefix, d) :
        big \in BOOLEAN, pad \in 0..MaxPad, gap \in 0..MaxGap, prefix \in {0, 2}, d \in TiffDates}

TiffInputs ==
    {MkInput("tiff", big, pad, 0, 4 * k, d) :
        big \in BOOLEAN, pad \in 0..MaxPad, k \in 0..MaxPrefixWords, d \in TiffDates}

\* text: prefix junk bytes, the date string, gap junk bytes
TextInputs ==
    {MkInput("text", FALSE, 0, gap, prefix, d) :
        gap \in {0, 1, 9}, prefix \in {0, 4}, d \in TextDates}

\* the jpeg buffer with its first two bytes (the SOI marker) replaced
NoSoiInputs ==
    {MkInput("nosoi", big, 0, 0, 0, d) : big \in BOOLEAN, d \in {D2023}}

LiteralInputs == {MkInput("literal", FALSE, 0, 0, k, ZeroTime) : k \in 1..Len(Literals)}

Inputs == JpegInputs \cup NoSoiInputs \cup TiffInputs \cup TextInputs \cup LiteralInputs

BufferOf(in) ==
    CASE in.kind = "jpeg" ->
            Filler(in.prefix, 71) \o JpegBytes(TiffBytes(in.big, in.pad, in.gap, TagDateTimeOriginal, in.date))
      [] in.kind = "nosoi" ->
            <<0, 0>> \o Tail1(Tail1(JpegBytes(TiffBytes(in.big, in.pad, in.gap, TagDateTimeOriginal, in.date))))
      [] in.kind = "tiff" ->
            Filler(in.prefix, 71) \o TiffBytes(in.big, in.pad, in.gap, TagDateTimeOriginal, in.date)
      [] in.kind = "text" ->
            SubSeq(Junk, 1, in.prefix) \o DateString(in.date) \o Filler(in.gap, 120)
      [] in.kind = "literal" -> Literals[in.prefix]

Exts == {ExtJPG, ExtUpperJPG, ExtJPEG, ExtCR2, ExtARW, ExtNEF, ExtDNG, ExtMP4, ExtMOV, ExtQT}

\* ------------------------------------------------------------------------
\* GetImageDateTime as a state machine
\* ------------------------------------------------------------------------
NoInput == MkInput("none", FALSE, 0, 0, 0, ZeroTime)
NoResult == [ok |-> FALSE, t |-> ZeroTime, err |-> "pending"]
NoIter == [i |-> 0, n |-> 0, big |-> FALSE, offset |-> 0, whole |-> NoResult, wholePos |-> 0]

\* ------------------------------------------------------------------------
\* fileutils.go: paths, extensions and the destination layout
\* ------------------------------------------------------------------------
\* a path is a sequence of components, a component a string of bytes
ExtCR3 == <<46, 99, 114, 51>>
ExtHEIC == <<46, 104, 101, 105, 99>>
ExtHEIF == <<46, 104, 101, 105, 102>>
ExtRAF == <<46, 114, 97, 102>>
ExtRW2 == <<46, 114, 119, 50>>
ExtRAW == <<46, 114, 97, 119>>

SupportedExtensions ==
    {ExtJPG, ExtJPEG, ExtNEF, ExtCR2, ExtCR3, ExtARW, ExtHEIC, ExtHEIF, ExtRAF, ExtRW2, ExtDNG, ExtRAW}

isAllowedExtension(e) == ToLower(e) \in SupportedExtensions

Max(S) == CHOOSE x \in S : \A y \in S : x >= y

\* filepath.Ext(name): the suffix of name that starts at its last dot
FilepathExt(name) ==
    LET dots == {i \in 1..Len(name) : name[i] = 46}
    IN IF dots = {} THEN <<>> ELSE SubSeq(name, Max(dots), Len(name))

\* filepath.Base(path)
FilepathBase(path) == path[Len(path)]

\* filepath.Dir(path)
FilepathDir(path) == SubSeq(path, 1, Len(path) - 1)

HasSuffix(str, suffix) ==
    Len(str) >= Len(suffix) /\ SubSeq(str, Len(str) - Len(suffix) + 1, Len(str)) = suffix

\* strings.HasSuffix(strings.ToLower(path), ".jpg") || ... ".jpeg")
IsJPGPath(path) ==
    HasSuffix(ToLower(FilepathBase(path)), ExtJPG) \/ HasSuffix(ToLower(FilepathBase(path)), ExtJPEG)

\* fmt.Sprintf("%d", n) for n >= 0
RECURSIVE Dec(_)
Dec(n) == IF n < 10 THEN <<Dig(n)>> ELSE Dec(n \div 10) \o <<Dig(n % 10)>>

\* fmt.Sprintf("%02d", n) for n >= 0
Pad2(n) == IF n < 10 THEN <<48>> \o Dec(n) ELSE Dec(n)

\* the month and the day are printed without padding
MonthDayDirUnpadded(date) == Dec(date.month) \o <<45>> \o Dec(date.day)

\* fmt.Sprintf("%02d-%02d", date.Month(), date.Day())
MonthDayDir(date) == Pad2(date.month) \o <<45>> \o Pad2(date.day)

\* filepath.Join(p.Destination, year, month-day)
DestDirOf(destination, date) == destination \o <<Dec(date.year), MonthDayDir(date)>>

\* filepath.Join(destDir, filepath.Base(path))
DestPathOf(destination, date, path) == DestDirOf(destination, date) \o <<FilepathBase(path)>>

\* the directories os.MkdirAll(dir) makes sure exist
DirsUpTo(dir) == {SubSeq(dir, 1, k) : k \in 1..Len(dir)}

\* the source tree: "src" holding B.CR2, a.jpg, c.mp4 and sub/a.jpg, in the
\* lexical order filepath.Walk visits them in
SrcRoot == <<115, 114, 99>>
DstRoot == <<100, 115, 116>>
DirSub == <<115, 117, 98>>
NameBCR2 == <<66, 46, 67, 82, 50>>
NameAJpg == <<97, 46, 106, 112, 103>>
NameCMp4 == <<99, 46, 109, 112, 52>>

SourcePaths ==
    << <<SrcRoot, NameBCR2>>, <<SrcRoot, NameAJpg>>, <<SrcRoot, NameCMp4>>, <<SrcRoot, DirSub, NameAJpg>> >>

D0800 == MkTime(800, 2, 29, 7, 8, 9)

\* what a source file may contain
Contents ==
    {MkInput("jpeg", TRUE, 0, 0, 0, D2023),
     MkInput("jpeg", TRUE, 0, 0, 0, D0800),
     MkInput("text", FALSE, 0, 9, 4, D2100),
     MkInput("literal", FALSE, 0, 0, 1, ZeroTime)}

\* GetImageDateTime(buffer, filepath.Ext(info.Name())) for the contents and
\* the file names of the source tree
ExtractedDate ==
    [c \in Contents, j \in 1..Len(SourcePaths) |->
        GetImageDateTime(BufferOf(c), FilepathExt(FilepathBase(SourcePaths[j])))]

\* the system call of a visit that fails, if the visit gets to it
EnvOutcomes == {"ok", "open_fail", "read_fail", "stat_fail", "mkdir_fail", "write_fail", "remove_fail"}

ParamsSet ==
    {[Source |-> <<SrcRoot>>, Destination |-> <<DstRoot>>, Compression |-> q, DeleteSource |-> del] :
        q \in {-1, 50}, del \in BOOLEAN}

ZeroSummary == [Processed |-> 0, Compressed |-> 0, Copied |-> 0, Skipped |-> 0, Deleted |-> 0]

NoVisit == [path |-> <<>>, content |-> NoInput, date |-> NoResult, outcome |-> "none"]

\* a file left under Destination by an earlier run
OldFile ==
    [path |-> <<DstRoot, <<50, 48, 50, 51>>, <<48, 54, 45, 49, 53>>, NameAJpg>>, from |-> <<>>, how |-> "old"]

InitPipeIdle ==
    /\ walk = "none"
    /\ params = [Source |-> <<>>, Destination |-> <<>>, Compression |-> -1, DeleteSource |-> FALSE]
    /\ walkPos = 0
    /\ destFiles = {}
    /\ destDirs = {}
    /\ srcGone = {}
    /\ summary = ZeroSummary
    /\ walkErr = ErrNone
    /\ last = NoVisit
    /\ eligible = 0

InitCall ==
    /\ pc = "idle"
    /\ input = NoInput
    /\ fileExt = <<>>
    /\ buf = <<>>
    /\ ext = <<>>
    /\ strategies = <<>>
    /\ idx = 1
    /\ pos = 0
    /\ log = <<>>
    /\ result = NoResult
    /\ trackedRes = NoResult
    /\ between = FALSE
    /\ iter = NoIter

Init ==
    /\ InitCall
    /\ tracked = <<NoInput, <<>>>>
    /\ InitPipeIdle

\* the inputs whose repeated calls are compared
TrackedInputs ==
    {<<MkInput("jpeg", TRUE, 0, 0, 0, D1800), ExtJPG>>,
     <<MkInput("tiff", FALSE, 0, 0, 8, D2023), ExtCR2>>,
     <<MkInput("text", FALSE, 0, 9, 4, D2020), ExtMP4>>,
     <<MkInput("literal", FALSE, 0, 0, 1, ZeroTime), ExtUpperJPG>>}

InitIdem ==
    /\ InitCall
    /\ tracked \in TrackedInputs
    /\ InitPipeIdle

\* GetImageDateTime(buffer, fileExt) is called: lines 53-70
Call(in, e) ==
    /\ pc = "idle"
    /\ input' = in
    /\ fileExt' = e
    /\ buf' = BufferOf(in)
    /\ ext' = ToLower(e)
    /\ strategies' = StrategiesFor(ToLower(e))
    /\ idx' = 1
    /\ pos' = 0
    /\ log' = <<>>
    /\ result' = NoResult
    /\ pc' = "loop"
    /\ UNCHANGED <<tracked, trackedRes, between, iter>>
    /\ UNCHANGED pipeVars

\* one iteration of the loop of lines 73-84 for the strategy called name
Try(name) ==
    /\ pc = "loop"
    /\ idx <= Len(strategies)
    /\ strategies[idx] = name
    /\ LET sk == SeekStart(pos, 0)
       IN IF ~sk.ok
          THEN /\ result' = [ok |-> FALSE, t |-> ZeroTime, err |-> ErrNegativeSeek]
               /\ pc' = "done"
               /\ UNCHANGED <<idx, pos, log>>
          ELSE LET r == RunStrategy(name, buf, sk.pos, ext)
               IN /\ log' = Append(log, [name |-> name, startPos |-> sk.pos, ok |-> r.ok, t |-> r.t, err |-> r.err])
                  /\ pos' = r.pos
                  /\ IF r.ok
                     THEN /\ result' = [ok |-> TRUE, t |-> r.t, err |-> ErrNone]
                          /\ pc' = "done"
                          /\ idx' = idx
                     ELSE /\ result' = result
                          /\ pc' = "loop"
                          /\ idx' = idx + 1
    /\ UNCHANGED <<input, fileExt, buf, ext, strategies, tracked, trackedRes, between, iter>>
    /\ UNCHANGED pipeVars

TryJPEG == Try("JPEG")

TryTIFF == Try("TIFF")

TryOffsetsStrategy == Try("Offsets")

TryScan == Try("Scan")

\* the error of the first strategy is returned
ReturnFirstError ==
    /\ pc = "loop"
    /\ idx > Len(strategies)
    /\ result' = [ok |-> FALSE, t |-> ZeroTime, err |-> log[1].err]
    /\ pc' = "done"
    /\ UNCHANGED <<input, fileExt, buf, ext, strategies, idx, pos, log, tracked, trackedRes, between, iter>>
    /\ UNCHANGED pipeVars

\* line 86: every strategy failed
ReturnNoDate ==
    /\ pc = "loop"
    /\ idx > Len(strategies)
    /\ result' = [ok |-> FALSE, t |-> ZeroTime, err |-> ErrNoDateTime]
    /\ pc' = "done"
    /\ UNCHANGED <<input, fileExt, buf, ext, strategies, idx, pos, log, tracked, trackedRes, between, iter>>
    /\ UNCHANGED pipeVars

\* the caller takes the result; the buffer, the reader and the returned
\* values are locals of the call and are dropped
Return ==
    /\ pc = "done"
    /\ pc' = "idle"
    /\ trackedRes' = IF <<input, fileExt>> = tracked /\ trackedRes = NoResult
                     THEN result ELSE trackedRes
    /\ input' = NoInput
    /\ fileExt' = <<>>
    /\ buf' = <<>>
    /\ ext' = <<>>
    /\ between' = (between \/ (trackedRes # NoResult /\ <<input, fileExt>> # tracked))
    /\ idx' = 1
    /\ pos' = 0
    /\ log' = <<>>
    /\ result' = NoResult
    /\ iter' = NoIter
    /\ UNCHANGED <<tracked, strategies>>
    /\ UNCHANGED pipeVars

Next ==
    \/ \E in \in Inputs, e \in Exts : Call(in, e)
    \/ TryJPEG
    \/ TryTIFF
    \/ TryOffsetsStrategy
    \/ TryScan
    \/ ReturnNoDate
    \/ Return

Spec == Init /\ [][Next]_vars

\* the same program, with one input singled out for comparison across calls
SpecIdem == InitIdem /\ [][Next]_vars

\* ------------------------------------------------------------------------
\* Direct calls of the exported locators (as the package's tests make them)
\* ------------------------------------------------------------------------
\* date/time strings given to the scanner: in and out of [1990, 2100], and
\* with each field out of its range in turn
ScanDates ==
    {D2020, D2023, D1800, D3000, D1990, D2100, DBadMonth,
     MkTime(1989, 12, 31, 23, 59, 59), MkTime(2101, 1, 1, 0, 0, 0),
     MkTime(0, 0, 0, 0, 0, 0), MkTime(2000, 0, 1, 0, 0, 0), MkTime(2000, 1, 0, 0, 0, 0),
     MkTime(2000, 1, 32, 0, 0, 0), MkTime(2000, 1, 1, 24, 0, 0), MkTime(2000, 1, 1, 0, 60, 0),
     MkTime(2000, 1, 1, 0, 0, 60), MkTime(2023, 2, 29, 10, 0, 0), MkTime(2024, 2, 29, 10, 0, 0),
     MkTime(2021, 4, 31, 1, 2, 3)}

\* prefix junk bytes, the date string, gap filler bytes
ScanTextInputs ==
    {MkInput("text", FALSE, 0, gap, prefix, d) : gap \in {0, 1, 9}, prefix \in {0, 4}, d \in ScanDates}

\* "Text ", a first date string, " ", a second date string, " more text"
ScanTwoInputs ==
    {[kind |-> "text2", date |-> d1, date2 |-> d2] :
        d1 \in {D1800, D3000, DBadMonth, D1990}, d2 \in {D2020, D2100, D3000}}

TextBefore == <<84, 101, 120, 116, 32>>
TextAfter == <<32, 109, 111, 114, 101, 32, 116, 101, 120, 116>>

ScanBufferOf(in) ==
    IF in.kind = "text2"
    THEN TextBefore \o DateString(in.date) \o <<32>> \o DateString(in.date2) \o TextAfter
    ELSE BufferOf(in)

\* the positions a reader is left at before it is handed to a locator
StartPositions(b) == {0, 5, Len(b) + 2}

\* ScanForDateTimeString(reader, "") with the reader over the buffer of in,
\* at position p0
CallScanForDateTimeString(in, p0) ==
    /\ pc = "idle"
    /\ LET b == ScanBufferOf(in)
       IN \E r \in {ScanForDateTimeString(b, p0, <<>>)} :
             /\ input' = in
             /\ buf' = b
             /\ pos' = r.pos
             /\ log' = <<[name |-> "Scan", startPos |-> p0, ok |-> r.ok, t |-> r.t, err |-> r.err]>>
             /\ result' = [ok |-> r.ok, t |-> r.t, err |-> r.err]
    /\ pc' = "done"
    /\ UNCHANGED <<fileExt, ext, strategies, idx, tracked, trackedRes, between, iter>>
    /\ UNCHANGED pipeVars

\* --- TIFF structures handed to ParseTIFFHeader ---
RECURSIVE Concat(_)
Concat(ss) == IF ss = <<>> THEN <<>> ELSE Head(ss) \o Concat(Tail(ss))

\* a value offset that lies beyond the end of every buffer built here
FarOffset == 60000

TagMake == 271

\* an IFD entry as the file's writer means it: tag, type, count, the string
\* stored for it, and whether its value offset points at that string or far
\* beyond the buffer
MkEntry(tag, typ, count, date, far) ==
    [tag |-> tag, typ |-> typ, count |-> count, date |-> date, far |-> far]

\* header, pad filler bytes, the IFD with all the entries, the next-IFD
\* offset, then one 20-byte string per entry; value offsets are relative to
\* the header start
IfdBytes(big, pad, entries) ==
    LET n == Len(entries)
        ifdOffset == 8 + pad
        base == ifdOffset + 2 + 12 * n + 4
    IN (IF big THEN <<77, 77>> ELSE <<73, 73>>)
       \o Bytes16(big, TiffMagic) \o Bytes32(big, ifdOffset)
       \o Filler(pad, 0)
       \o Bytes16(big, n)
       \o Concat([k \in 1..n |->
              IFDEntry(big, entries[k].tag, entries[k].typ, entries[k].count,
                       IF entries[k].far THEN FarOffset ELSE base + 20 * (k - 1))])
       \o Bytes32(big, 0)
       \o Concat([k \in 1..n |-> DateString(entries[k].date) \o <<0>>])

MkIfd(big, pad, prefix, entries) ==
    [kind |-> "ifd", big |-> big, pad |-> pad, prefix |-> prefix, entries |-> entries]

DateTags == {TagDateTimeOriginal, TagDateTimeDigitized, TagDateTime}

\* IFDs whose date entries have a count of at most 4, alone or followed by
\* an entry with a full-length value
ShortCountInputs ==
    {MkIfd(big, pad, prefix, <<MkEntry(tag, TypeASCII, count, D2023, far)>>) :
        big \in BOOLEAN, pad \in {0, 2}, prefix \in {0, 3}, tag \in DateTags, count \in {0, 4}, far \in BOOLEAN}
    \cup
    {MkIfd(big, 0, prefix, <<MkEntry(tag, TypeASCII, count, D2023, far),
                             MkEntry(TagDateTime, TypeASCII, 20, D2020, FALSE)>>) :
        big \in BOOLEAN, prefix \in {0, 3}, tag \in DateTags, count \in {1, 4}, far \in BOOLEAN}
    \cup
    {MkIfd(TRUE, 0, 0, <<MkEntry(TagDateTime, TypeASCII, 5, D2023, FALSE)>>)}

\* the date of each tag when an IFD holds several
DateOfTag(tag) ==
    IF tag = TagDateTimeOriginal THEN D2023
    ELSE IF tag = TagDateTimeDigitized THEN D2100
    ELSE D2020

\* IFDs with two or three of the date tags, in every order
TagOrders ==
    {o \in UNION {[1..n -> DateTags] : n \in 2..3} : \A i, j \in DOMAIN o : i # j => o[i] # o[j]}

MultiTagInputs ==
    {MkIfd(big, 0, 0, [k \in DOMAIN o |-> MkEntry(o[k], TypeASCII, 20, DateOfTag(o[k]), FALSE)]) :
        big \in BOOLEAN, o \in TagOrders}

\* IFDs at every first-IFD offset, the date entry first or after another tag
OffsetInputs ==
    {MkIfd(big, pad, prefix, <<MkEntry(TagDateTimeOriginal, TypeASCII, 20, D2023, FALSE)>>) :
        big \in BOOLEAN, pad \in 0..MaxPad, prefix \in {0, 3}}
    \cup
    {MkIfd(big, pad, prefix, <<MkEntry(TagMake, TypeASCII, 20, D2020, FALSE),
                               MkEntry(TagDateTimeOriginal, TypeASCII, 20, D2023, FALSE)>>) :
        big \in BOOLEAN, pad \in 0..MaxPad, prefix \in {0, 3}}

\* IFDs of one to three date-tag entries, each with a value that parses or
\* one that does not (month 13, hour 25)
TagAt == <<TagDateTimeOriginal, TagDateTime, TagDateTimeDigitized>>
GoodDateAt == <<D2023, D2020, D2100>>
BadDateAt == <<DBadMonth, DBadHour, DBadMonth>>

UnparseableInputs ==
    {MkIfd(big, 0, prefix,
           [k \in DOMAIN good |->
               MkEntry(TagAt[k], TypeASCII, 20, IF good[k] THEN GoodDateAt[k] ELSE BadDateAt[k], FALSE)]) :
        big \in BOOLEAN, prefix \in {0, 3}, good \in UNION {[1..n -> BOOLEAN] : n \in 1..3}}

\* a structure whose first-IFD offset is 0, so that the IFD lies over the
\* header: the byte-order marker is read as the entry count, entry 0 is the
\* rest of the header, entry 1 is a date tag with value offset 0, entry 2 a
\* date tag whose value offset leads the parser to the date string at 38
LowIfdBytes(big, date) ==
    (IF big THEN BigEndianMarker ELSE LittleEndianMarker)
    \o Bytes16(big, TiffMagic) \o Bytes32(big, 0)
    \o Filler(6, 0)
    \o IFDEntry(big, TagDateTimeOriginal, TypeASCII, 20, 0)
    \o IFDEntry(big, TagDateTime, TypeASCII, 20, 46)
    \o DateString(date) \o <<0>>

LowIfdInputs ==
    {[kind |-> "lowifd", big |-> big, prefix |-> prefix, date |-> D2020] :
        big \in BOOLEAN, prefix \in {0, 3, 8, 11}}

\* a header with the given byte-order and magic bytes, followed by the rest
\* of a big-endian TIFF structure that holds a date
MkHdr(order, magic, prefix) == [kind |-> "hdr", order |-> order, magic |-> magic, prefix |-> prefix]

HeaderInputs ==
    {MkHdr(order, magic, prefix) :
        order \in {<<88, 88>>, <<73, 77>>, <<77, 73>>, <<105, 105>>, <<0, 0>>, <<73, 73>>, <<77, 77>>},
        magic \in {<<0, 42>>, <<42, 0>>, <<0, 43>>},
        prefix \in {0, 3}}

TiffInputBytes(in) ==
    IF in.kind = "hdr"
    THEN Filler(in.prefix, 71) \o in.order \o in.magic
         \o SubSeq(TiffBytes(TRUE, 0, 0, TagDateTimeOriginal, D2023), 5, 46)
    ELSE IF in.kind = "lowifd" THEN Filler(in.prefix, 71) \o LowIfdBytes(in.big, in.date)
    ELSE Filler(in.prefix, 71) \o IfdBytes(in.big, in.pad, in.entries)

\* ParseTIFFHeader(reader) with the reader over the buffer of in, positioned
\* at the first byte of the header
CallParseTIFFHeader(in) ==
    /\ pc = "idle"
    /\ LET b == TiffInputBytes(in)
       IN \E r \in {ParseTIFFHeader(b, in.prefix)} :
             /\ input' = in
             /\ buf' = b
             /\ pos' = r.pos
             /\ log' = <<[name |-> "ParseTIFF", startPos |-> in.prefix, ok |-> r.ok, t |-> r.t, err |-> r.err]>>
             /\ result' = [ok |-> r.ok, t |-> r.t, err |-> r.err]
    /\ pc' = "done"
    /\ UNCHANGED <<fileExt, ext, strategies, idx, tracked, trackedRes, between, iter>>
    /\ UNCHANGED pipeVars

\* --- JPEG files handed to ExtractExifFromJPEG ---
\* an APP1 segment: marker, length (of the length field, the identifier and
\* the payload), identifier, payload
App1Segment(identifier, payload) ==
    <<MarkerPrefix, MarkerAPP1>> \o Bytes16(TRUE, 2 + Len(identifier) + Len(payload)) \o identifier \o payload

NotExifIdentifier == <<65, 66, 67, 68, 0, 0>>

\* the payload of a first APP1 segment that yields no date
FirstPayload(first) ==
    CASE first = "noexif" -> <<1, 2, 3, 4, 5, 6, 7, 8>>
      [] first = "badorder" -> <<88, 88>> \o SubSeq(TiffBytes(TRUE, 0, 0, TagDateTimeOriginal, DBadMonth), 3, 46)
      [] first = "badmagic" -> <<77, 77, 0, 43>> \o SubSeq(TiffBytes(TRUE, 0, 0, TagDateTimeOriginal, DBadMonth), 5, 46)
      [] first = "nodate" -> IfdBytes(TRUE, 0, <<MkEntry(TagMake, TypeASCII, 20, DBadMonth, FALSE)>>)
      [] first = "baddate" -> TiffBytes(TRUE, 0, 0, TagDateTimeOriginal, DBadMonth)

FirstKinds == {"noexif", "badorder", "badmagic", "nodate", "baddate"}

\* SOI, a first APP1 segment that yields no date, a second APP1 segment with
\* the Exif identifier and a TIFF structure holding the date, EOI
MkJpeg2(first, big, date) == [kind |-> "jpeg2", first |-> first, big |-> big, date |-> date]

TwoSegmentInputs ==
    {MkJpeg2(first, big, d) : first \in FirstKinds, big \in BOOLEAN, d \in {D2023, D2020}}

\* a JPEG file as a sequence of segments between SOI and EOI
SegmentBytes(seg, big, date) ==
    CASE seg = "app0" -> <<255, 224, 0, 16, 74, 70, 73, 70, 0, 1, 1, 0, 0, 1, 0, 1, 0, 0>>
      [] seg = "dqt" -> <<255, 219, 0, 5, 0, 255, 225>>
      [] seg = "com" -> <<255, 254, 0, 2>>
      [] seg = "sos" -> <<255, 218, 0, 8, 1, 2, 3, 4, 5, 6>>
      [] seg = "len0" -> <<255, 224, 0, 0>>
      [] seg = "len1" -> <<255, 224, 0, 1>>
      [] seg = "noexif" -> App1Segment(NotExifIdentifier, <<1, 2, 3, 4, 5, 6, 7, 8>>)
      [] seg = "exif" -> App1Segment(ExifIdentifier, TiffBytes(big, 0, 0, TagDateTimeOriginal, date))

MkJpegSeq(segs, big, date) == [kind |-> "jpegseq", segs |-> segs, big |-> big, date |-> date]

SegmentLists ==
    {<<"exif">>, <<"app0", "exif">>, <<"app0", "dqt", "exif">>, <<"com", "app0", "com", "dqt", "exif">>,
     <<"app0", "app0", "app0", "noexif", "exif">>, <<"app0">>, <<"app0", "dqt">>,
     <<"sos", "exif">>, <<"app0", "sos", "exif">>, <<"noexif", "dqt", "sos", "exif">>, <<"sos">>,
     <<"len0", "exif">>, <<"len1", "exif">>, <<"app0", "len1", "exif">>, <<"dqt", "len0", "app0", "exif">>}

SegmentInputs == {MkJpegSeq(segs, big, d) : segs \in SegmentLists, big \in BOOLEAN, d \in {D2023, D2020}}

JpegSeqBytes(in) ==
    SOI \o Concat([k \in 1..Len(in.segs) |-> SegmentBytes(in.segs[k], in.big, in.date)]) \o <<255, 217>>

JpegInputBytes(in) ==
    IF in.kind = "jpeg2"
    THEN SOI
         \o App1Segment(IF in.first = "noexif" THEN NotExifIdentifier ELSE ExifIdentifier, FirstPayload(in.first))
         \o App1Segment(ExifIdentifier, TiffBytes(in.big, 0, 0, TagDateTimeOriginal, in.date))
         \o <<255, 217>>
    ELSE IF in.kind = "jpegseq" THEN JpegSeqBytes(in)
    ELSE BufferOf(in)

\* the one-segment files and the literal buffers of the tests
OneSegmentInputs ==
    {MkInput("jpeg", big, 0, gap, 0, d) : big \in BOOLEAN, gap \in 0..MaxGap, d \in {D2023, D1800}}
    \cup NoSoiInputs \cup LiteralInputs

\* ExtractExifFromJPEG(reader, "") on a fresh reader over the buffer of in
CallExtractExifFromJPEG(in) ==
    /\ pc = "idle"
    /\ LET b == JpegInputBytes(in)
       IN \E r \in {ExtractExifFromJPEG(b, 0, <<>>)} :
             /\ input' = in
             /\ buf' = b
             /\ pos' = r.pos
             /\ log' = <<[name |-> "JPEG", startPos |-> 0, ok |-> r.ok, t |-> r.t, err |-> r.err]>>
             /\ result' = [ok |-> r.ok, t |-> r.t, err |-> r.err]
    /\ pc' = "done"
    /\ UNCHANGED <<fileExt, ext, strategies, idx, tracked, trackedRes, between, iter>>
    /\ UNCHANGED pipeVars

\* a little-endian TIFF structure at offset 0 whose IFD entry holds, in the
\* low half of its count and the high half of its value offset, the header of
\* a big-endian TIFF structure at offset 16; both first-IFD offsets are 8
PolyglotFar == 10752

PolyglotBytes(dateA, dateB) ==
    LittleEndianMarker \o Bytes16(FALSE, TiffMagic) \o Bytes32(FALSE, 8)
    \o Bytes16(FALSE, 1)
    \o Bytes16(FALSE, TagDateTimeOriginal) \o Bytes16(FALSE, TypeASCII)
    \o <<20, 0>> \o BigEndianMarker
    \o Bytes16(TRUE, TiffMagic) \o <<0, 0>>
    \o <<0, 8>>
    \o Bytes16(TRUE, 1)
    \o IFDEntry(TRUE, TagDateTimeOriginal, TypeASCII, 20, 26)
    \o Bytes32(TRUE, 0)
    \o DateString(dateB) \o <<0>>
    \o Filler(PolyglotFar - 62, 0)
    \o DateString(dateA) \o <<0>>

PolyglotInputs ==
    {[kind |-> "poly", date |-> dA, dateB |-> D2020] : dA \in {D2023, DBadMonth}}

OffsetsInputs == TiffInputs \cup LiteralInputs \cup PolyglotInputs

OffsetsBufferOf(in) ==
    IF in.kind = "poly" THEN PolyglotBytes(in.date, in.dateB) ELSE BufferOf(in)

\* the extensions the locator is called with; it compares them as they are
OffsetsExts == {ExtCR2, ExtARW, ExtNEF, ExtDNG, ExtJPG, <<46, 67, 82, 50>>}

\* ExtractExifWithOffsets(reader, ext) called directly, the reader at p0
CallExtractExifWithOffsets(in, e, p0) ==
    /\ pc = "idle"
    /\ LET b == OffsetsBufferOf(in)
       IN \E r \in {ExtractExifWithOffsets(b, p0, e)} :
             /\ input' = in
             /\ buf' = b
             /\ ext' = e
             /\ pos' = r.pos
             /\ log' = <<[name |-> "Offsets", startPos |-> p0, ok |-> r.ok, t |-> r.t, err |-> r.err]>>
             /\ result' = [ok |-> r.ok, t |-> r.t, err |-> r.err]
    /\ pc' = "done"
    /\ UNCHANGED <<fileExt, strategies, idx, tracked, trackedRes, between, iter>>
    /\ UNCHANGED pipeVars

InitUnit ==
    /\ InitCall
    /\ tracked = <<NoInput, <<>>>>
    /\ InitPipeIdle

NextUnit ==
    \/ \E in \in ScanTextInputs \cup ScanTwoInputs :
          \E p0 \in StartPositions(ScanBufferOf(in)) : CallScanForDateTimeString(in, p0)
    \/ \E in \in ShortCountInputs \cup MultiTagInputs \cup OffsetInputs \cup HeaderInputs
                 \cup UnparseableInputs \cup LowIfdInputs :
          CallParseTIFFHeader(in)
    \/ \E in \in TwoSegmentInputs \cup OneSegmentInputs \cup SegmentInputs : CallExtractExifFromJPEG(in)
    \/ \E in \in OffsetsInputs : \E e \in OffsetsExts : \E p0 \in {0, 7} :
          CallExtractExifWithOffsets(in, e, p0)
    \/ Return

\* the locators called one at a time, each on a reader of its own
SpecUnit == InitUnit /\ [][NextUnit]_vars

\* --- buffers longer than the scan limit ---
\* at zero bytes, the date string, then ChunkSize zero bytes
MkLong(at, date) == [kind |-> "long", at |-> at, date |-> date]

LongInputs ==
    {MkLong(at, D2020) : at \in {ScanLimit - 20, ScanLimit, ScanLimit + ChunkSize}}

\* a buffer of len bytes, all zero but for the date string at offset at
MkSpan(at, len, date) == [kind |-> "span", at |-> at, len |-> len, date |-> date]

\* the string inside a chunk, in the last window of the first chunk, across
\* the first chunk boundary, and at the start of the second chunk
SpanInputs ==
    {MkSpan(at, 2 * ChunkSize, D2020) : at \in {100, ChunkSize - 20, ChunkSize - 19, ChunkSize - 6, ChunkSize - 1, ChunkSize, 5000}}

LongBufferOf(in) ==
    IF in.kind = "long"
    THEN Filler(in.at, 0) \o DateString(in.date) \o Filler(ChunkSize, 0)
    ELSE IF in.kind = "span"
    THEN Filler(in.at, 0) \o DateString(in.date) \o Filler(in.len - in.at - 19, 0)
    ELSE ScanBufferOf(in)

\* ScanForDateTimeString(reader, "") on a fresh reader over a buffer that
\* may be longer than the scan limit; the bytes of the buffer are not kept
\* in the state
CallScanLong(in) ==
    /\ pc = "idle"
    /\ LET b == LongBufferOf(in)
       IN \E r \in {ScanForDateTimeString(b, 0, <<>>)} :
             /\ input' = in
             /\ buf' = <<>>
             /\ pos' = r.pos
             /\ log' = <<[name |-> "Scan", startPos |-> 0, ok |-> r.ok, t |-> r.t, err |-> r.err]>>
             /\ result' = [ok |-> r.ok, t |-> r.t, err |-> r.err]
    /\ pc' = "done"
    /\ UNCHANGED <<fileExt, ext, strategies, idx, tracked, trackedRes, between, iter>>
    /\ UNCHANGED pipeVars

NextScanLong ==
    \/ \E in \in LongInputs \cup SpanInputs \cup ScanTextInputs \cup ScanTwoInputs : CallScanLong(in)
    \/ Return

\* the scanner on buffers of every length
SpecScanLong == InitUnit /\ [][NextScanLong]_vars

\* ------------------------------------------------------------------------
\* The three loops, one iteration at a time
\* ------------------------------------------------------------------------
\* the offset is taken from the start of the buffer
SeekCurrentFromStart(p, off) == off

\* reader.Seek(off, io.SeekCurrent)
SeekCurrent(p, off) == p + off

\* one iteration of the marker loop of ExtractExifFromJPEG, the reader at p
JPEGIteration(b, p) ==
    LET m == ReadFull(b, p, 2)
    IN IF ~m.ok THEN Break(m.pos, ErrNoExifInJpeg)
       ELSE IF m.data[1] # MarkerPrefix THEN Continue(m.pos)
       ELSE IF m.data[2] = MarkerAPP1
       THEN LET lb == ReadFull(b, m.pos, 2)
            IN IF ~lb.ok THEN Break(lb.pos, ErrNoExifInJpeg)
               ELSE LET length == SegmentLength(lb.data)
                        eh == ReadFull(b, lb.pos, 6)
                    IN IF ~eh.ok THEN Break(eh.pos, ErrNoExifInJpeg)
                       ELSE LET isExif == (eh.data = ExifIdentifier)
                                r == IF isExif THEN ParseTIFFHeader(b, eh.pos)
                                     ELSE Failure(ErrNoExifInJpeg, eh.pos)
                                skipLength == length - 2 - 6
                            IN IF isExif /\ r.ok THEN ReturnTime(r.t, r.pos)
                               ELSE IF skipLength > 0
                               THEN Continue(SeekCurrent(r.pos, skipLength))
                               ELSE Continue(r.pos)
       ELSE IF m.data[2] = MarkerSOS THEN Break(m.pos, ErrNoExifInJpeg)
       ELSE LET lb == ReadFull(b, m.pos, 2)
            IN IF ~lb.ok THEN Break(lb.pos, ErrNoExifInJpeg)
               ELSE LET length == SegmentLength(lb.data)
                    IN IF length < 2 THEN Break(lb.pos, ErrNoExifInJpeg)
                       ELSE Continue(SeekCurrent(lb.pos, length - 2))

\* ParseTIFFHeader up to the entry loop: byte order, magic number, first-IFD
\* offset, seek, entry count
IFDStart(b, p) ==
    LET om == ReadFull(b, p, 2)
    IN IF ~om.ok THEN Break(om.pos, ErrEOF)
       ELSE IF om.data # BigEndianMarker /\ om.data # LittleEndianMarker
       THEN Break(om.pos, ErrInvalidByteOrder)
       ELSE LET big == (om.data = BigEndianMarker)
                mk == ReadFull(b, om.pos, 2)
            IN IF ~mk.ok THEN Break(mk.pos, ErrEOF)
               ELSE IF U16(big, mk.data, 1) # TiffMagic THEN Break(mk.pos, ErrInvalidTiffMarker)
               ELSE LET ob == ReadFull(b, mk.pos, 4)
                    IN IF ~ob.ok THEN Break(ob.pos, ErrEOF)
                       ELSE LET sk == SeekStart(ob.pos, ob.pos - 8 + U32(big, ob.data, 1))
                            IN IF ~sk.ok THEN Break(ob.pos, ErrNegativeSeek)
                               ELSE LET ec == ReadFull(b, sk.pos, 2)
                                    IN IF ~ec.ok THEN Break(ec.pos, ErrEOF)
                                       ELSE [kind |-> "continue", pos |-> ec.pos, big |-> big,
                                             n |-> U16(big, ec.data, 1)]

\* one iteration of the entry loop of ParseTIFFHeader: entry i, the reader
\* at p
IFDIteration(b, big, i, p) ==
    LET e == ReadFull(b, p, 12)
    IN IF ~e.ok THEN Break(e.pos, ErrEOF)
       ELSE LET tag == U16(big, e.data, 1)
                dataType == U16(big, e.data, 3)
                count == U32(big, e.data, 5)
                valueOffset == U32(big, e.data, 9)
                currentPos == e.pos
            IN IF ~(IsDateTag(tag) /\ dataType = TypeASCII) \/ ValueTooShort(count)
               THEN Continue(currentPos)
               ELSE LET sk == SeekStart(currentPos, ValuePosition(currentPos, i, valueOffset))
                    IN IF ~sk.ok THEN Break(currentPos, ErrNegativeSeek)
                       ELSE LET dr == ReadFull(b, sk.pos, 20)
                            IN IF ~dr.ok THEN Break(dr.pos, ErrEOF)
                               ELSE LET pr == ParseExifTime(SubSeq(dr.data, 1, 19))
                                    IN IF pr.ok THEN ReturnTime(pr.t, currentPos)
                                       ELSE Continue(currentPos)

\* buffers that lead the loops astray: a length of 0 in an Exif segment, a
\* first-IFD offset of 0 and one of 2^20 inside a segment, fill bytes, no
\* marker at all, a length that reaches beyond the buffer, an entry count of
\* 65535, an entry count of 0
LoopLiterals ==
    << SOI \o <<255, 225, 0, 0>> \o ExifIdentifier \o LowIfdBytes(TRUE, D2020) \o <<255, 217>>,
       SOI \o <<255, 225, 0, 16>> \o ExifIdentifier \o <<77, 77, 0, 42, 0, 16, 0, 0>> \o <<255, 217>>,
       SOI \o <<255, 255, 255, 255, 255, 224, 0, 2, 255, 217>>,
       SOI \o <<0, 1, 2, 3, 4>>,
       SOI \o <<255, 224, 255, 255, 1, 2>>,
       SOI \o <<255, 225, 0, 2>> \o ExifIdentifier \o <<88, 88>> \o <<255, 224, 0, 3, 9>> \o <<255, 217>>,
       <<77, 77, 0, 42, 0, 0, 0, 8, 255, 255>> \o Filler(30, 0),
       <<73, 73, 42, 0, 8, 0, 0, 0, 0, 0>> >>

LoopLiteralInputs == {[kind |-> "looplit", prefix |-> 0, k |-> k] : k \in 1..Len(LoopLiterals)}

LoopBufferOf(in) ==
    IF in.kind = "looplit" THEN LoopLiterals[in.k]
    ELSE IF in.kind \in {"jpeg2", "jpegseq"} THEN JpegInputBytes(in)
    ELSE IF in.kind \in {"ifd", "lowifd"} THEN TiffInputBytes(in)
    ELSE IF in.kind = "span" THEN LongBufferOf(in)
    ELSE ScanBufferOf(in)

LoopNames == {"jpegloop", "ifdloop", "scanloop"}

\* the locals at the start of a loop; w is what the function as a whole
\* returns on the buffer, kept for comparison
StartIter(w) == [NoIter EXCEPT !.whole = [ok |-> w.ok, t |-> w.t, err |-> w.err], !.wholePos = w.pos]

\* the loop is left: the function returns
LeaveLoop(name, startPos, it) ==
    /\ pc' = "done"
    /\ pos' = it.pos
    /\ log' = <<[name |-> name, startPos |-> startPos, ok |-> it.kind = "return", t |-> it.t, err |-> it.err]>>
    /\ result' = [ok |-> it.kind = "return", t |-> it.t, err |-> it.err]

\* ExtractExifFromJPEG up to its loop: the SOI marker
EnterJPEG(in) ==
    /\ pc = "idle"
    /\ \E b \in {LoopBufferOf(in)} :
       \E s \in {ReadFull(b, 0, 2)} :
       \E w \in {ExtractExifFromJPEG(b, 0, <<>>)} :
          /\ input' = in
          /\ buf' = b
          /\ iter' = StartIter(w)
          /\ IF ~s.ok THEN LeaveLoop("jpegloop", 0, Break(s.pos, ErrEOF))
             ELSE IF s.data # SOI THEN LeaveLoop("jpegloop", 0, Break(s.pos, ErrNotJPEG))
             ELSE /\ pc' = "jpegloop"
                  /\ pos' = s.pos
                  /\ UNCHANGED <<log, result>>
    /\ UNCHANGED <<fileExt, ext, strategies, idx, tracked, trackedRes, between>>
    /\ UNCHANGED pipeVars

JPEGStep ==
    /\ pc = "jpegloop"
    /\ \E it \in {JPEGIteration(buf, pos)} :
          IF it.kind = "continue"
          THEN /\ pos' = it.pos
               /\ iter' = [iter EXCEPT !.i = @ + 1]
               /\ UNCHANGED <<pc, log, result>>
          ELSE LeaveLoop("jpegloop", 0, it) /\ iter' = iter
    /\ UNCHANGED <<input, fileExt, buf, ext, strategies, idx, tracked, trackedRes, between>>
    /\ UNCHANGED pipeVars

\* ParseTIFFHeader up to its loop, the reader at the header start
EnterTIFF(in) ==
    /\ pc = "idle"
    /\ \E b \in {LoopBufferOf(in)} :
       \E st \in {IFDStart(b, in.prefix)} :
       \E w \in {ParseTIFFHeader(b, in.prefix)} :
          /\ input' = in
          /\ buf' = b
          /\ IF st.kind = "break" THEN LeaveLoop("ifdloop", in.prefix, st) /\ iter' = StartIter(w)
             ELSE /\ pc' = "ifdloop"
                  /\ pos' = st.pos
                  /\ iter' = [StartIter(w) EXCEPT !.n = st.n, !.big = st.big]
                  /\ UNCHANGED <<log, result>>
    /\ UNCHANGED <<fileExt, ext, strategies, idx, tracked, trackedRes, between>>
    /\ UNCHANGED pipeVars

\* "for i := 0; i < int(entryCount); i++"
IFDStep ==
    /\ pc = "ifdloop"
    /\ IF iter.i >= iter.n
       THEN LeaveLoop("ifdloop", input.prefix, Break(pos, ErrNoDateTime)) /\ iter' = iter
       ELSE \E it \in {IFDIteration(buf, iter.big, iter.i, pos)} :
               IF it.kind = "continue"
               THEN /\ pos' = it.pos
                    /\ iter' = [iter EXCEPT !.i = @ + 1]
                    /\ UNCHANGED <<pc, log, result>>
               ELSE LeaveLoop("ifdloop", input.prefix, it) /\ iter' = iter
    /\ UNCHANGED <<input, fileExt, buf, ext, strategies, idx, tracked, trackedRes, between>>
    /\ UNCHANGED pipeVars

\* ScanForDateTimeString up to its loop: the seek to offset 0
EnterScan(in) ==
    /\ pc = "idle"
    /\ input' = in
    /\ \E b \in {LoopBufferOf(in)} :
       \E w \in {ScanForDateTimeString(b, 0, <<>>)} :
          /\ buf' = b
          /\ iter' = StartIter(w)
    /\ pc' = "scanloop"
    /\ pos' = SeekStart(pos, 0).pos
    /\ UNCHANGED <<log, result>>
    /\ UNCHANGED <<fileExt, ext, strategies, idx, tracked, trackedRes, between>>
    /\ UNCHANGED pipeVars

ScanStep ==
    /\ pc = "scanloop"
    /\ \E it \in {ScanIteration(buf, pos, iter.offset)} :
          IF it.kind = "continue"
          THEN /\ pos' = it.pos
               /\ iter' = [iter EXCEPT !.i = @ + 1, !.offset = @ + (it.pos - pos)]
               /\ UNCHANGED <<pc, log, result>>
          ELSE LeaveLoop("scanloop", 0, it) /\ iter' = iter
    /\ UNCHANGED <<input, fileExt, buf, ext, strategies, idx, tracked, trackedRes, between>>
    /\ UNCHANGED pipeVars

JPEGLoopInputs == TwoSegmentInputs \cup SegmentInputs \cup {in \in LoopLiteralInputs : in.k <= 6}

IFDLoopInputs ==
    UnparseableInputs \cup ShortCountInputs \cup LowIfdInputs \cup {in \in LoopLiteralInputs : in.k >= 7}

ScanLoopInputs == ScanTextInputs \cup SpanInputs

NextLoops ==
    \/ \E in \in JPEGLoopInputs : EnterJPEG(in)
    \/ JPEGStep
    \/ \E in \in IFDLoopInputs : EnterTIFF(in)
    \/ IFDStep
    \/ \E in \in ScanLoopInputs : EnterScan(in)
    \/ ScanStep
    \/ Return

\* the loops of the extractor; a loop that has been entered runs on, one
\* iteration after the other
SpecLoops ==
    Init /\ [][NextLoops]_vars /\ WF_vars(JPEGStep) /\ WF_vars(IFDStep) /\ WF_vars(ScanStep)

\* ------------------------------------------------------------------------
\* ProcessMediaFiles and copyOrCompressImage
\* ------------------------------------------------------------------------
ErrWalk == "failed to walk directory"

Bump(sm, field) == [sm EXCEPT ![field] = @ + 1]

\* no path is ever reported as existing
FileExistsNever(files, path) == FALSE

FileExistsAt(files, path) == \E f \in files : f.path = path

\* the source is removed whatever the parameters say
ShouldDeleteAlways(p) == TRUE

\* "if p.DeleteSource"
ShouldDelete(p) == p.DeleteSource

\* writeJPEGWithEXIF(destPath, exifBlock, outputBuffer), when it succeeds:
\* the file is created at destPath and nowhere else
WriteJPEGWithEXIF(files, destPath, sourceFile, how) ==
    files \cup {[path |-> destPath, from |-> sourceFile, how |-> how]}

\* copyOrCompressImage(destPath, sourceFile, buffer, isJPG, p, summary):
\* the destination tree, the removed sources and the summary it leaves,
\* starting from st, when the image decodes iff decodable and the system
\* call named by env fails
CopyOrCompressImage(destPath, sourceFile, isJPG, decodable, env, p, st) ==
    IF env = "stat_fail" THEN [st EXCEPT !.outcome = "stat_fail"]
    ELSE IF FileExistsAt(st.files, destPath)
    THEN [st EXCEPT !.summary = Bump(@, "Skipped"), !.outcome = "exists"]
    ELSE IF env = "mkdir_fail" THEN [st EXCEPT !.outcome = "mkdir_fail"]
    ELSE LET st1 == [st EXCEPT !.dirs = @ \cup DirsUpTo(FilepathDir(destPath))]
             compress == isJPG /\ p.Compression >= 0
         IN IF compress /\ ~decodable THEN [st1 EXCEPT !.outcome = "decode_fail"]
            ELSE LET st2 == [st1 EXCEPT !.summary = Bump(@, IF compress THEN "Compressed" ELSE "Copied")]
                 IN IF env = "write_fail" THEN [st2 EXCEPT !.outcome = "write_fail"]
                    ELSE LET how == IF compress THEN "compressed" ELSE "copied"
                             st3 == [st2 EXCEPT !.files = WriteJPEGWithEXIF(@, destPath, sourceFile, how),
                                                !.summary = Bump(@, "Processed")]
                         IN IF ~ShouldDelete(p) THEN [st3 EXCEPT !.outcome = "processed"]
                            ELSE IF env = "remove_fail" THEN [st3 EXCEPT !.outcome = "remove_fail"]
                            ELSE [st3 EXCEPT !.gone = @ \cup {sourceFile},
                                             !.summary = Bump(@, "Deleted"),
                                             !.outcome = "processed"]

\* the body of the walk function of ProcessMediaFiles for the regular file
\* path, whose extraction gave date: what it leaves, starting from st
VisitFile(path, date, decodable, env, p, st) ==
    IF ~isAllowedExtension(FilepathExt(FilepathBase(path)))
    THEN [st EXCEPT !.outcome = "not_eligible"]
    ELSE IF env = "open_fail"
    THEN [st EXCEPT !.summary = Bump(@, "Skipped"), !.outcome = "open_fail"]
    ELSE IF env = "read_fail"
    THEN [st EXCEPT !.summary = Bump(@, "Skipped"), !.outcome = "read_fail"]
    ELSE IF ~date.ok
    THEN [st EXCEPT !.summary = Bump(@, "Skipped"), !.outcome = "no_date"]
    ELSE CopyOrCompressImage(DestPathOf(p.Destination, date.t, path), path,
                             IsJPGPath(path), decodable, env, p, st)

\* a failure of copyOrCompressImage is handed on to filepath.Walk
WalkFnReturnsFailure(outcome) ==
    IF outcome \in {"stat_fail", "mkdir_fail", "decode_fail", "write_fail", "remove_fail"}
    THEN "failed to process file" ELSE ErrNone

\* what the walk function returns to filepath.Walk after a visit: nil
\* ("Continue to next file") on every path through lines 103-144
WalkFnReturn(outcome) == ErrNone

\* the walk function of ProcessMediaFiles called on the regular file
\* SourcePaths[j], which holds content c
WalkFile(j, c, decodable, env) ==
    /\ walk = "walking"
    /\ j > walkPos
    /\ j <= Len(SourcePaths)
    /\ walkPos' = j
    /\ \E date \in {ExtractedDate[c, j]} :
       \E res \in {VisitFile(SourcePaths[j], date, decodable, env, params,
                             [files |-> destFiles, dirs |-> destDirs, gone |-> srcGone,
                              summary |-> summary, outcome |-> "none"])} :
          /\ destFiles' = res.files
          /\ destDirs' = res.dirs
          /\ srcGone' = res.gone
          /\ summary' = res.summary
          /\ last' = [path |-> SourcePaths[j], content |-> c,
                      date |-> IF res.outcome \in {"not_eligible", "open_fail", "read_fail"}
                               THEN NoResult ELSE date,
                      outcome |-> res.outcome]
          /\ walk' = IF WalkFnReturn(res.outcome) = ErrNone THEN "walking" ELSE "returned"
          /\ walkErr' = IF WalkFnReturn(res.outcome) = ErrNone THEN ErrNone ELSE ErrWalk
          /\ eligible' = IF res.outcome = "not_eligible" THEN eligible ELSE eligible + 1
    /\ UNCHANGED params
    /\ UNCHANGED callVars

\* the walk function called with an error for a path: the walk is abandoned
WalkAccessError ==
    /\ walk = "walking"
    /\ walk' = "returned"
    /\ walkErr' = ErrWalk
    /\ last' = [NoVisit EXCEPT !.outcome = "access_error"]
    /\ UNCHANGED <<params, walkPos, destFiles, destDirs, srcGone, summary, eligible>>
    /\ UNCHANGED callVars

\* the walk is over: ProcessMediaFiles returns the summary
WalkDone ==
    /\ walk = "walking"
    /\ walk' = "returned"
    /\ walkErr' = ErrNone
    /\ UNCHANGED <<params, walkPos, destFiles, destDirs, srcGone, summary, last, eligible>>
    /\ UNCHANGED callVars

InitPipe ==
    /\ InitCall
    /\ tracked = <<NoInput, <<>>>>
    /\ walk = "walking"
    /\ params \in ParamsSet
    /\ walkPos = 0
    /\ destFiles \in {{}, {OldFile}}
    /\ destDirs = UNION {DirsUpTo(FilepathDir(f.path)) : f \in destFiles}
    /\ srcGone = {}
    /\ summary = ZeroSummary
    /\ walkErr = ErrNone
    /\ last = NoVisit
    /\ eligible = 0

NextPipe ==
    \/ \E j \in 1..Len(SourcePaths), c \in Contents, decodable \in BOOLEAN, env \in EnvOutcomes :
          WalkFile(j, c, decodable, env)
    \/ WalkAccessError
    \/ WalkDone

\* a run of ProcessMediaFiles over a source tree
SpecPipe == InitPipe /\ [][NextPipe]_vars

\* ------------------------------------------------------------------------
\* Properties of GetImageDateTime
\* ------------------------------------------------------------------------
Done == pc = "done"

InCall == pc \in {"loop", "done"}

\* the order the strategies are to be invoked in for a file extension
ExpectedOrder(fe) ==
    IF fe \in {ExtJPG, ExtJPEG, ExtUpperJPG}
    THEN <<"JPEG", "TIFF", "Offsets", "Scan">>
    ELSE <<"TIFF", "Offsets", "Scan">>

\* C1: the strategies are invoked in the fixed order JPEG (only for .jpg and
\* .jpeg, case-insensitively), TIFF, Offsets, Scan, each at most once and
\* each with the reader at position 0; a failed strategy is followed by the
\* next one, nothing is invoked after a success, a call fails only after
\* every strategy has failed, and the timestamp returned is that of the
\* first strategy that succeeds.
C1_StrategyOrder ==
    InCall =>
        /\ Len(log) <= Len(ExpectedOrder(fileExt))
        /\ \A k \in 1..Len(log) :
              /\ log[k].name = ExpectedOrder(fileExt)[k]
              /\ log[k].startPos = 0
              /\ (k < Len(log) => ~log[k].ok)
        /\ (pc = "loop" => \A k \in 1..Len(log) : ~log[k].ok)
        /\ (Done /\ result.ok =>
              /\ Len(log) >= 1
              /\ log[Len(log)].ok
              /\ result.t = log[Len(log)].t)
        /\ (Done /\ ~result.ok =>
              /\ Len(log) = Len(ExpectedOrder(fileExt))
              /\ \A k \in 1..Len(log) : ~log[k].ok)

\* a .jpg call in which three strategies failed, one of them on a truncated
\* read, and the fourth succeeded
C1_Witness ==
    /\ Done
    /\ result.ok
    /\ Len(log) = 4
    /\ \E k \in 1..3 : log[k].err = ErrEOF

\* C2: a call returns either a timestamp with no error, or the zero
\* timestamp with the terminal "no date/time information found" error; the
\* latter exactly when every strategy failed.
C2_TimestampOrTerminalError ==
    Done =>
        \/ /\ result.ok
           /\ result.err = ErrNone
           /\ \E k \in 1..Len(log) : log[k].ok
        \/ /\ ~result.ok
           /\ result.t = ZeroTime
           /\ result.err = ErrNoDateTime
           /\ \A k \in 1..Len(log) : ~log[k].ok

\* the empty buffer has been rejected by every strategy
C2_Witness ==
    /\ Done
    /\ buf = <<>>
    /\ ~result.ok
    /\ Len(log) = Len(strategies)

\* C3: a call with a video extension (.mp4, .mov, .qt) never returns a
\* timestamp, whatever the buffer holds.
C3_VideoExtensionFails ==
    Done /\ fileExt \in {ExtMP4, ExtMOV, ExtQT} => ~result.ok

\* C4: the year of every timestamp returned lies in [1990, 2100].
C4_YearInRange ==
    Done /\ result.ok => result.t.year >= 1990 /\ result.t.year <= 2100

\* C5: for a JPEG whose Exif segment holds a DateTimeOriginal string, with
\* any first-IFD offset and any placement of the string, a .jpg call returns
\* exactly that date/time.
C5_JpegExifExactDate ==
    Done /\ input.kind = "jpeg" /\ input.prefix = 0 /\ fileExt = ExtJPG =>
        result.ok /\ result.t = input.date

\* C6: for the literal JPEG buffer holding "2023:06:15 14:30:45" a .jpg call
\* returns 2023-06-15 14:30:45 and the JPEG locator, invoked first, is the
\* strategy that produces it.
C6_LiteralJpeg ==
    Done /\ buf = ScenarioJpeg /\ fileExt = ExtJPG =>
        /\ result.ok
        /\ result.t = MkTime(2023, 6, 15, 14, 30, 45)
        /\ Len(log) = 1
        /\ log[1].name = "JPEG"
        /\ log[1].ok

C6_Witness ==
    /\ Done
    /\ buf = ScenarioJpeg
    /\ fileExt = ExtJPG
    /\ result.ok

StartsWithSOI(b) == Len(b) >= 2 /\ b[1] = 255 /\ b[2] = 216

\* C7: the JPEG locator fails on every buffer whose first two bytes are not
\* FF D8, also on a buffer shorter than two bytes and on one that holds a
\* complete Exif APP1 segment further on.
C7_NoSoiFails ==
    \A k \in 1..Len(log) :
        log[k].name = "JPEG" /\ ~StartsWithSOI(buf) => ~log[k].ok

\* the JPEG locator has run on a buffer that holds a complete Exif segment
\* right after two bytes that are not FF D8
C7_Witness ==
    /\ input.kind = "nosoi"
    /\ Len(log) >= 1
    /\ log[1].name = "JPEG"
    /\ ~log[1].ok

\* C8: for a buffer with no TIFF header at offset 0 and a TIFF structure
\* with a parseable date tag at offset 8, a .cr2 call returns that date, and
\* it is the offset-scanning locator that succeeds, after the plain-TIFF
\* locator has failed.
C8_OffsetRaw ==
    Done /\ input.kind = "tiff" /\ input.prefix = 8 /\ fileExt = ExtCR2 =>
        /\ result.ok
        /\ result.t = input.date
        /\ Len(log) = 2
        /\ log[1].name = "TIFF" /\ ~log[1].ok
        /\ log[2].name = "Offsets" /\ log[2].ok

\* C9: a call on an input returns what the first call on that input
\* returned, whatever calls were made in between, and the buffer still holds
\* the bytes it was built with.
C9_Idempotent ==
    Done =>
        /\ buf = BufferOf(input)
        /\ (<<input, fileExt>> = tracked /\ trackedRes # NoResult => result = trackedRes)

\* a later call on the tracked input has completed with a timestamp, after a
\* call on another input
C9_Witness ==
    /\ Done
    /\ <<input, fileExt>> = tracked
    /\ trackedRes # NoResult
    /\ between
    /\ result.ok

\* ------------------------------------------------------------------------
\* Properties of ProcessMediaFiles
\* ------------------------------------------------------------------------
\* the decimal digits of a year
YearText(y) ==
    IF y >= 1000 THEN <<48 + (y \div 1000), 48 + ((y \div 100) % 10), 48 + ((y \div 10) % 10), 48 + (y % 10)>>
    ELSE IF y >= 100 THEN <<48 + (y \div 100), 48 + ((y \div 10) % 10), 48 + (y % 10)>>
    ELSE IF y >= 10 THEN <<48 + (y \div 10), 48 + (y % 10)>>
    ELSE <<48 + y>>

\* <Destination>/<YYYY>/<MM-DD>/<name>
ClaimedPath(destination, t, name) ==
    destination \o <<YearText(t.year),
                     <<48 + (t.month \div 10), 48 + (t.month % 10), 45,
                       48 + (t.day \div 10), 48 + (t.day % 10)>>,
                     name>>

\* C10: a visit that processes a file adds exactly one file under
\* Destination, at <Destination>/<YYYY>/<MM-DD>/<source basename> for the
\* date GetImageDateTime extracted from it; no other step adds, removes or
\* replaces a file under Destination.
C10_DestinationLayout ==
    [][LET old == {f.path : f \in destFiles}
           new == {f.path : f \in destFiles'}
       IN /\ destFiles \subseteq destFiles'
          /\ IF summary'.Processed = summary.Processed + 1
             THEN /\ last'.date.ok
                  /\ new \ old = {ClaimedPath(params.Destination, last'.date.t, last'.path[Len(last'.path)])}
                  /\ Cardinality(destFiles') = Cardinality(destFiles) + 1
             ELSE destFiles' = destFiles]_vars

\* a second file has been processed, one dated 0800-02-29, from the
\* subdirectory of the source tree
C10_Witness ==
    /\ last.outcome = "processed"
    /\ last.date.t = D0800
    /\ Len(last.path) = 3
    /\ summary.Processed = 2

Visited == walkPos' # walkPos

\* C18: a visit whose destination path already exists counts one more
\* Skipped file and changes nothing else: the files under Destination keep
\* their contents, the source file is not removed even with DeleteSource
\* set, and Processed, Compressed, Copied and Deleted stay as they were.
C18_ExistingDestination ==
    [][Visited /\ last'.date.ok /\ last'.outcome # "stat_fail"
          /\ ClaimedPath(params.Destination, last'.date.t, last'.path[Len(last'.path)])
                 \in {f.path : f \in destFiles}
       => /\ last'.outcome = "exists"
          /\ summary' = [summary EXCEPT !.Skipped = @ + 1]
          /\ destFiles' = destFiles
          /\ destDirs' = destDirs
          /\ srcGone' = srcGone]_vars

\* with DeleteSource set, a file whose destination was left by an earlier
\* run has been skipped and is still in the source tree
C18_Witness ==
    /\ last.outcome = "exists"
    /\ params.DeleteSource
    /\ OldFile \in destFiles
    /\ Cardinality(destFiles) = 1
    /\ srcGone = {}
    /\ summary = [Processed |-> 0, Compressed |-> 0, Copied |-> 0, Skipped |-> 1, Deleted |-> 0]

\* C19: no visit of a file ends the walk or makes ProcessMediaFiles return
\* an error, whatever failed in it; a file that cannot be opened, cannot be
\* read or yields no date counts one more Skipped file and leaves the
\* destination and the source tree alone; an error is returned only when a
\* path could not be accessed during the walk.
C19_PerFileFailureContinues ==
    [][/\ (Visited =>
              /\ walk' = "walking"
              /\ walkErr' = ErrNone
              /\ (last'.outcome \in {"open_fail", "read_fail", "no_date"} =>
                     /\ summary' = [summary EXCEPT !.Skipped = @ + 1]
                     /\ destFiles' = destFiles
                     /\ srcGone' = srcGone))
       /\ (walk' = "returned" =>
              (walkErr' # ErrNone <=> last'.outcome = "access_error"))]_vars

\* ProcessMediaFiles has returned without error after two files were
\* skipped for a failure and a later one was processed
C19_Witness ==
    /\ walk = "returned"
    /\ walkErr = ErrNone
    /\ last.outcome = "processed"
    /\ Cardinality(destFiles) = 1
    /\ summary.Skipped = 2
    /\ summary.Processed = 1

\* ------------------------------------------------------------------------
\* Properties of the locators called directly
\* ------------------------------------------------------------------------
ScanDone == pc = "done" /\ Len(log) = 1 /\ log[1].name = "Scan"

\* a date/time of the calendar: month 1-12, day valid for the month, hour
\* 0-23, minute and second 0-59
ValidDateTime(t) ==
    /\ t.month \in 1..12
    /\ t.day \in 1..31
    /\ (t.month \in {4, 6, 9, 11} => t.day <= 30)
    /\ (t.month = 2 => t.day <= 29)
    /\ (t.month = 2 /\ t.day = 29 => (t.year % 4 = 0 /\ (t.year % 100 # 0 \/ t.year % 400 = 0)))
    /\ t.hour \in 0..23
    /\ t.minute \in 0..59
    /\ t.second \in 0..59

Acceptable(t) == ValidDateTime(t) /\ t.year >= 1990 /\ t.year <= 2100

\* C11: a date-shaped window the scanner looks at is accepted iff it is a
\* valid calendar date/time with its year in [1990, 2100]: 1800 and 3000 are
\* rejected, 1990 and 2100 accepted; the scanner returns the first accepted
\* window and fails when every date-shaped window of the buffer is rejected.
C11_ScanAcceptance ==
    /\ (ScanDone /\ input.kind = "text" /\ input.gap >= 1 =>
            /\ result.ok <=> Acceptable(input.date)
            /\ result.ok => result.t = input.date
            /\ ~result.ok => result.err = ErrNoDateTime /\ result.t = ZeroTime)
    /\ (ScanDone /\ input.kind = "text2" =>
            /\ result.ok <=> (Acceptable(input.date) \/ Acceptable(input.date2))
            /\ result.ok => result.t = (IF Acceptable(input.date) THEN input.date ELSE input.date2))

\* the scanner has accepted a date string of the year 2100
C11_Witness ==
    /\ ScanDone
    /\ input.kind = "text"
    /\ input.gap = 9
    /\ input.date = D2100
    /\ result.ok

\* the scanner has rejected a buffer whose only date-shaped window is a
\* valid date of the year 3000
C11_WitnessRejected ==
    /\ ScanDone
    /\ input.kind = "text"
    /\ input.gap >= 1
    /\ input.date = D3000
    /\ ~result.ok

\* C12: on prefix ++ format(d) ++ suffix, with d valid and in [1990, 2100],
\* both fillers non-empty and free of date-shaped windows, the scanner
\* returns exactly d, whatever the position of the reader it is given.
C12_ScanRoundTrip ==
    ScanDone /\ input.kind = "text" /\ input.prefix >= 1 /\ input.gap >= 1 /\ Acceptable(input.date) =>
        result.ok /\ result.t = input.date

\* the scanner was given a reader positioned past the end of the buffer
C12_Witness ==
    /\ ScanDone
    /\ input.kind = "text"
    /\ input.prefix = 4
    /\ input.gap = 9
    /\ input.date = D2020
    /\ log[1].startPos > Len(buf)
    /\ result.ok
    /\ result.t = MkTime(2020, 5, 15, 14, 30, 25)

TiffDone == pc = "done" /\ Len(log) = 1 /\ log[1].name = "ParseTIFF"

\* the entries of an IFD whose value the parser may use: a date tag of type
\* ASCII with a count above 4
Usable(entries) ==
    {k \in 1..Len(entries) :
        entries[k].tag \in {36867, 36868, 306} /\ entries[k].typ = 2 /\ entries[k].count > 4}

HasShortDateEntry(entries) ==
    \E k \in 1..Len(entries) :
        entries[k].tag \in {36867, 36868, 306} /\ entries[k].typ = 2 /\ entries[k].count <= 4

\* the reader position just after the last entry of the IFD
EndOfEntries(in) == in.prefix + 8 + in.pad + 2 + 12 * Len(in.entries)

\* C13: a date-tag entry of type ASCII with count <= 4 is skipped without a
\* seek or a read of its value, even when its value offset points at a
\* parseable date string or beyond the end of the buffer: a later entry with
\* a full-length value is returned, and otherwise the parser fails with "no
\* date/time information found", the reader left just after the last entry.
C13_ShortCountSkipped ==
    TiffDone /\ input.kind = "ifd" /\ HasShortDateEntry(input.entries)
             /\ Cardinality(Usable(input.entries)) <= 1 =>
        IF Usable(input.entries) = {}
        THEN ~result.ok /\ result.err = ErrNoDateTime /\ pos = EndOfEntries(input)
        ELSE result.ok /\ result.t = input.entries[CHOOSE k \in Usable(input.entries) : TRUE].date

\* an entry with count 4 whose value offset points beyond the buffer was
\* passed over and the entry after it was returned
C13_Witness ==
    /\ TiffDone
    /\ input.kind = "ifd"
    /\ Len(input.entries) = 2
    /\ input.entries[1].count = 4
    /\ input.entries[1].far
    /\ result.ok
    /\ result.t = D2020

\* the 16-bit magic number as the byte order of the header reads it
MagicOf(in) ==
    IF in.order = <<77, 77>> THEN in.magic[1] * 256 + in.magic[2]
    ELSE in.magic[2] * 256 + in.magic[1]

\* C14: with two bytes other than "II" and "MM" at the reader's position the
\* parser fails with the invalid-byte-order error, the reader exactly 2 bytes
\* further; with a valid byte order and a magic number other than 42 it
\* fails with the invalid-TIFF-marker error, the reader exactly 4 bytes
\* further.
C14_HeaderRejected ==
    TiffDone /\ input.kind = "hdr" =>
        /\ (input.order \notin {<<73, 73>>, <<77, 77>>} =>
                ~result.ok /\ result.err = ErrInvalidByteOrder /\ pos = log[1].startPos + 2)
        /\ (input.order \in {<<73, 73>>, <<77, 77>>} /\ MagicOf(input) # 42 =>
                ~result.ok /\ result.err = ErrInvalidTiffMarker /\ pos = log[1].startPos + 4)

\* "XX" followed by a complete, valid rest of a TIFF structure was rejected
C14_Witness ==
    /\ TiffDone
    /\ input.kind = "hdr"
    /\ input.order = <<88, 88>>
    /\ input.magic = <<0, 42>>
    /\ input.prefix = 3
    /\ result.err = ErrInvalidByteOrder
    /\ pos = 5

\* "MM" followed by the magic number in little-endian order was rejected
C14_WitnessMagic ==
    /\ TiffDone
    /\ input.kind = "hdr"
    /\ input.order = <<77, 77>>
    /\ input.magic = <<42, 0>>
    /\ result.err = ErrInvalidTiffMarker
    /\ pos = input.prefix + 4

\* the date the IFD holds for the tag of highest priority it contains
PreferredDate(entries) ==
    LET tags == {entries[k].tag : k \in 1..Len(entries)}
        best == IF 36867 \in tags THEN 36867 ELSE IF 36868 \in tags THEN 36868 ELSE 306
    IN entries[CHOOSE k \in 1..Len(entries) : entries[k].tag = best].date

\* C15: when an IFD holds parseable values for several date tags the parser
\* returns that of DateTimeOriginal if present, otherwise that of
\* DateTimeDigitized, otherwise that of DateTime, in whatever order the
\* entries appear.
C15_TagPriority ==
    TiffDone /\ input.kind = "ifd" /\ Cardinality(Usable(input.entries)) >= 2 =>
        result.ok /\ result.t = PreferredDate(input.entries)

\* C16: for every first-IFD offset and every entry index, the value of a
\* date tag is read at header start + value offset: the parser returns the
\* date string the entry points at.
C16_ValueOffsetFromHeader ==
    TiffDone /\ input.kind = "ifd" /\ Cardinality(Usable(input.entries)) = 1
             /\ ~HasShortDateEntry(input.entries) =>
        result.ok /\ result.t = input.entries[CHOOSE k \in Usable(input.entries) : TRUE].date

\* C17: the scanner looks at the first 1 MiB of the buffer only: a date
\* string that lies entirely at or beyond offset 1,048,576 is never returned,
\* and the scanner fails when nothing before that offset matches.
C17_ScanLimit ==
    ScanDone /\ input.kind = "long" /\ input.at >= 1048576 => ~result.ok

JpegDone == pc = "done" /\ Len(log) = 1 /\ log[1].name = "JPEG"

\* C20: after an APP1 segment that yields no date (its identifier is not
\* "Exif\0\0", or ParseTIFFHeader failed on it) the next marker is read at
\* the first byte after that segment, so the date of a valid Exif APP1
\* segment that follows it is returned.
C20_NextMarkerAfterSegment ==
    JpegDone /\ input.kind = "jpeg2" => result.ok /\ result.t = input.date

\* the index of the first segment of the list that is one of the kinds
\* given, or 0
RECURSIVE FirstOf(_, _, _)
FirstOf(segs, kinds, k) ==
    IF k > Len(segs) THEN 0 ELSE IF segs[k] \in kinds THEN k ELSE FirstOf(segs, kinds, k + 1)

\* the offset in the file of segment k of the list (SOI takes 2 bytes)
RECURSIVE OffsetOfSegment(_, _)
OffsetOfSegment(in, k) ==
    IF k = 1 THEN 2
    ELSE OffsetOfSegment(in, k - 1) + Len(SegmentBytes(in.segs[k - 1], in.big, in.date))

\* C21: when FF DA is read at a marker position before an APP1 segment has
\* yielded a date, the locator fails with the reader just after that marker:
\* nothing after it is looked at, not even a valid Exif APP1 segment.
C21_StopAtStartOfScan ==
    JpegDone /\ input.kind = "jpegseq" =>
        LET sos == FirstOf(input.segs, {"sos"}, 1)
            stop == FirstOf(input.segs, {"sos", "exif", "len0", "len1"}, 1)
        IN sos # 0 /\ stop = sos =>
              /\ ~result.ok
              /\ result.err = ErrNoExifInJpeg
              /\ pos = OffsetOfSegment(input, sos) + 2

\* a start-of-scan segment after an APP0 segment hid a valid Exif segment
C21_Witness ==
    /\ JpegDone
    /\ input.kind = "jpegseq"
    /\ input.segs = <<"app0", "sos", "exif">>
    /\ ~result.ok
    /\ pos = 22

\* C22: a segment with a marker other than APP1 and SOS is skipped by its
\* 2-byte big-endian length, so an Exif APP1 segment after any number of
\* well-formed segments is found; a segment with a length below 2 makes the
\* locator fail at once, the reader just after the length field.
C22_OtherSegmentsSkipped ==
    JpegDone /\ input.kind = "jpegseq" =>
        LET stop == FirstOf(input.segs, {"sos", "exif", "len0", "len1"}, 1)
        IN /\ (stop # 0 /\ input.segs[stop] = "exif" => result.ok /\ result.t = input.date)
           /\ (stop # 0 /\ input.segs[stop] \in {"len0", "len1"} =>
                  /\ ~result.ok
                  /\ result.err = ErrNoExifInJpeg
                  /\ pos = OffsetOfSegment(input, stop) + 4)

\* the Exif segment was found behind five other segments
C22_Witness ==
    /\ JpegDone
    /\ input.kind = "jpegseq"
    /\ Len(input.segs) = 5
    /\ input.segs[5] = "exif"
    /\ result.ok
    /\ result.t = D2020

\* a segment of length 1 ended the search before a valid Exif segment
C22_WitnessBadLength ==
    /\ JpegDone
    /\ input.kind = "jpegseq"
    /\ input.segs = <<"app0", "len1", "exif">>
    /\ ~result.ok
    /\ pos = 24

OffsetsDone == pc = "done" /\ Len(log) = 1 /\ log[1].name = "Offsets"

\* the candidate offsets as the claim lists them
ClaimedCandidates(e) ==
    IF e = <<46, 99, 114, 50>> THEN <<0, 8, 16>>
    ELSE IF e = <<46, 97, 114, 119>> THEN <<0, 4, 8, 12>>
    ELSE <<0, 4, 8>>

\* C23: ExtractExifWithOffsets runs the parser at the candidates 0, 8, 16
\* for .cr2, 0, 4, 8, 12 for .arw and 0, 4, 8 for any other extension, in
\* that order and wherever the reader stood; it returns the result of the
\* first candidate at which the parser succeeds and fails when there is none.
\* So a TIFF structure at offset p of a padded buffer is found exactly when p
\* is a candidate, and empty or too-short buffers fail.
C23_CandidateOffsets ==
    OffsetsDone =>
        LET cands == ClaimedCandidates(ext)
            good == {k \in 1..Len(cands) : ParseTIFFHeader(buf, cands[k]).ok}
        IN /\ result.ok <=> good # {}
           /\ (good = {} => result.err = ErrNoOffsets /\ result.t = ZeroTime)
           /\ (good # {} =>
                  LET first == CHOOSE k \in good : \A j \in good : k <= j
                  IN result.t = ParseTIFFHeader(buf, cands[first]).t)
           /\ (input.kind = "tiff" /\ input.pad = 0 =>
                  /\ result.ok <=> \E k \in 1..Len(cands) : cands[k] = input.prefix
                  /\ (result.ok => result.t = input.date))
           /\ (input.kind = "poly" /\ input.date = D2023 => result.ok /\ result.t = D2023)
           /\ (input.kind = "literal" /\ Len(buf) < 8 => ~result.ok)

\* a TIFF structure at offset 16 was found for .cr2
C23_Witness ==
    /\ OffsetsDone
    /\ ext = ExtCR2
    /\ input.kind = "tiff"
    /\ input.pad = 0
    /\ input.prefix = 16
    /\ log[1].startPos = 7
    /\ result.ok
    /\ result.t = D2023

\* the same structure was not found for .nef
C23_WitnessNef ==
    /\ OffsetsDone
    /\ ext = ExtNEF
    /\ input.kind = "tiff"
    /\ input.pad = 0
    /\ input.prefix = 16
    /\ ~result.ok
    /\ result.err = ErrNoOffsets

\* the parser succeeds at the candidates 0 and 16 and the result is the one
\* of candidate 0
C23_WitnessLowest ==
    /\ OffsetsDone
    /\ ext = ExtCR2
    /\ input.kind = "poly"
    /\ ParseTIFFHeader(buf, 0).ok
    /\ ParseTIFFHeader(buf, 16).ok
    /\ ParseTIFFHeader(buf, 16).t = D2020
    /\ result.ok
    /\ result.t = D2023

\* candidate 0 failed on its date value and candidate 16 gave the result
C23_WitnessLater ==
    /\ OffsetsDone
    /\ ext = ExtCR2
    /\ input.kind = "poly"
    /\ input.date = DBadMonth
    /\ result.ok
    /\ result.t = D2020

\* the entries of an IFD whose value parses in the layout
Parseable(entries) == {k \in Usable(entries) : ValidDateTime(entries[k].date)}

\* C24: a date-tag entry whose value does not parse is passed over, the
\* reader back just after that entry, and a later entry with a parseable
\* value is returned; the first parseable entry ends the iteration, the
\* reader just after it; with no parseable entry the parser fails with
\* 'no date/time found', the reader after the last entry.
C24_UnparseableValueSkipped ==
    TiffDone /\ input \in UnparseableInputs =>
        LET good == Parseable(input.entries)
        IN IF good = {}
           THEN /\ ~result.ok
                /\ result.err = ErrNoDateTime
                /\ pos = EndOfEntries(input)
           ELSE LET first == CHOOSE k \in good : \A j \in good : k <= j
                IN /\ result.ok
                   /\ result.t = input.entries[first].date
                   /\ pos = input.prefix + 8 + 2 + 12 * first

\* two unparseable values were passed over and the third entry returned
C24_Witness ==
    /\ TiffDone
    /\ input \in UnparseableInputs
    /\ Len(input.entries) = 3
    /\ Parseable(input.entries) = {3}
    /\ result.ok
    /\ result.t = D2100

\* no value parsed
C24_WitnessNone ==
    /\ TiffDone
    /\ input \in UnparseableInputs
    /\ Len(input.entries) = 2
    /\ Parseable(input.entries) = {}
    /\ result.err = ErrNoDateTime

\* the first entry parsed and the later ones were not looked at
C24_WitnessFirst ==
    /\ TiffDone
    /\ input \in UnparseableInputs
    /\ Len(input.entries) = 3
    /\ Parseable(input.entries) = {1, 3}
    /\ result.t = D2023
    /\ pos = input.prefix + 22

\* C25: the parser gives, on a buffer P ++ S read from offset |P|, the
\* result (the timestamp, or failure) it gives on S read from offset 0.
C25_PositionIndependent ==
    TiffDone =>
        LET S == SubSeq(buf, input.prefix + 1, Len(buf))
            r0 == ParseTIFFHeader(S, 0)
        IN /\ result.ok = r0.ok
           /\ result.t = r0.t

\* C26: the last 19-byte window of a chunk is attempted like the others: a
\* valid in-range date string that is the final 19 bytes of the buffer, with
\* nothing after it, is found and returned.
C26_LastWindowFound ==
    ScanDone /\ input.kind = "text" /\ input.gap = 0 /\ Acceptable(input.date) =>
        result.ok /\ result.t = input.date

\* C30: a valid in-range date string is found wherever it starts within the
\* first 1 MiB of the buffer, also when its 19 bytes lie across the boundary
\* between two consecutive 4096-byte chunks.
C30_FoundAcrossChunks ==
    ScanDone /\ input.kind = "span" /\ input.at + 19 <= ScanLimit /\ Acceptable(input.date) =>
        result.ok /\ result.t = input.date

\* C27: when ProcessMediaFiles returns without error, every file with an
\* allowed extension that the walk met has been counted once, as Processed
\* or as Skipped.
C27_EveryEligibleFileCounted ==
    walk = "returned" /\ walkErr = ErrNone => summary.Processed + summary.Skipped = eligible

\* C28: a source file is removed only when DeleteSource is set and the
\* destination file has been written in the same call; when the destination
\* exists already, or the stat, the directory creation, the decoding or the
\* write fails, the source is still there; Deleted never exceeds Processed
\* and stays 0 when DeleteSource is false.
C28_DeleteOnlyAfterWrite ==
    [][/\ (srcGone' # srcGone =>
              /\ params.DeleteSource
              /\ Visited
              /\ last'.outcome = "processed"
              /\ srcGone' = srcGone \cup {last'.path}
              /\ \E f \in destFiles' \ destFiles : f.from = last'.path
              /\ summary'.Processed = summary.Processed + 1
              /\ summary'.Deleted = summary.Deleted + 1)
       /\ (Visited /\ last'.outcome \in {"exists", "stat_fail", "mkdir_fail", "decode_fail", "write_fail"} =>
              /\ srcGone' = srcGone
              /\ last'.path \notin srcGone'
              /\ summary'.Deleted = summary.Deleted)
       /\ summary'.Deleted <= summary'.Processed
       /\ (~params.DeleteSource => summary'.Deleted = 0 /\ srcGone' = {})]_vars

\* two sources were removed, each after its destination file was written
C28_Witness ==
    /\ params.DeleteSource
    /\ summary.Deleted = 2
    /\ summary.Processed >= 2
    /\ last.outcome = "processed"
    /\ last.path \in srcGone
    /\ \E f \in destFiles : f.from = last.path

\* the write failed with DeleteSource set and the source was kept
C28_WitnessKept ==
    /\ params.DeleteSource
    /\ last.outcome = "write_fail"
    /\ last.path \notin srcGone
    /\ summary.Deleted = 1

LoopDone == pc = "done" /\ Len(log) = 1 /\ log[1].name \in LoopNames

\* C29: each loop of the extractor comes to its end: in the marker loop of
\* ExtractExifFromJPEG the reader position grows with every iteration, also
\* after a failed ParseTIFFHeader; the entry loop of ParseTIFFHeader counts
\* up to the 16-bit entry count at most; the chunk loop of
\* ScanForDateTimeString advances by the bytes read. A loop run to its end
\* gives what the function returns.
C29_LoopsTerminate ==
    /\ [][/\ (pc = "jpegloop" /\ pc' = "jpegloop" => pos' > pos /\ pos < Len(buf))
          /\ (pc = "ifdloop" /\ pc' = "ifdloop" =>
                 iter'.i = iter.i + 1 /\ iter'.i <= iter.n /\ iter.n <= 65535)
          /\ (pc = "scanloop" /\ pc' = "scanloop" =>
                 pos' > pos /\ pos' - pos <= ChunkSize /\ iter'.offset = pos' /\ pos < Len(buf))
          /\ (LoopDone' /\ pc # "done" =>
                 /\ [ok |-> result'.ok, t |-> result'.t, err |-> result'.err] = iter'.whole
                 /\ pos' = iter'.wholePos)]_vars
    /\ ((pc \in LoopNames) ~> (pc = "done"))

\* the marker loop went through an Exif segment on which the parser failed
\* and two more iterations, and was left
C29_Witness ==
    /\ LoopDone
    /\ log[1].name = "jpegloop"
    /\ input.kind = "jpeg2"
    /\ input.first = "badmagic"
    /\ iter.i >= 3

\* the entry loop was left at end of buffer, far from its count of 65535
C29_WitnessEntries ==
    /\ LoopDone
    /\ log[1].name = "ifdloop"
    /\ iter.n = 65535
    /\ iter.i = 2
    /\ result.err = ErrEOF

\* the chunk loop read both chunks of a buffer and was left at its end
C29_WitnessScan ==
    /\ LoopDone
    /\ log[1].name = "scanloop"
    /\ input.kind = "span"
    /\ iter.i = 2
    /\ pos = 2 * ChunkSize

====
